---- MODULE Spec2Model ----
(***************************************************************************)
(* Jenkins declarative pipeline -> GitHub Actions converter.               *)
(*                                                                         *)
(* Text is a sequence of lexical items.  An item is a record [t, n]:       *)
(*   t = "{" , "}"      one brace character                                *)
(*   t = "ws"           one whitespace character                           *)
(*   t = "x"            any other character                                *)
(*   t = "pipeline", "stages", "parallel"                                  *)
(*                      one match of the keyword pattern \b<t>\b           *)
(*   t = "stage"        one match of the stage header pattern              *)
(*                      stage\s*\(\s*['"]name['"]\s*\)\s*\{ ; n is the     *)
(*                      captured name; the match ENDS with a '{'           *)
(*   t = "input"        one match of input(message: "...") ; no braces     *)
(*   t = "agent", "any", "node", "docker", "tools", "steps", "post",       *)
(*       "parameters", "always", "success", "failure", "cleanup"           *)
(*                      one match of the keyword pattern \b<t>\b           *)
(*   t = "label", "image", "args", "maven", "jdk", "nodejs"                *)
(*                      one match of <t> '...' ; n is the quoted value     *)
(*   t = "sh", "echo"   one single-line step sh '...' / echo '...' ;       *)
(*                      n is the quoted command, a sequence of words       *)
(*   t = "sh3"          one triple-quoted sh step ; v holds its lines      *)
(*   t = "git"          one git step with a url ; n is its credentialsId   *)
(*   t = "env"          one line KEY = 'value' of an environment block ;   *)
(*                      n is the key, v the value                          *)
(*   t = "giturl"       git url: '<n>' on a line of its own ; n is the url  *)
(*                      as a sequence of chunks ("https:", "//", ...)       *)
(*   t = "gitcut"       what `//.*` leaves of such a line: git url: '<n>    *)
(*                      without the closing quote                          *)
(*   t = "sonar"        one withSonarQubeEnv(...) { sh '...' } ; n is the  *)
(*                      inner command                                      *)
(*   t = "cred"         credentialsId: '...' ; n is the id                 *)
(*   t = "credcall"     credentials('...') ; n is the id                   *)
(*   t = "sshagent"     sshagent([...]) ; n is the text between [ and ],   *)
(*                      one character per element                          *)
(*   t = "archive", "mail"                                                 *)
(*                      archiveArtifacts(artifacts: '...') / mail to: '...'*)
(*   t = "string", "booleanParam", "choice"                                *)
(*                      one parameter declaration ; n is the name, v the   *)
(*                      default value (string, booleanParam) or the list   *)
(*                      of choices (choice)                                *)
(* Offsets are Python offsets (0-based, half-open slices) counted in       *)
(* items.  Names and job ids are sequences of one-character strings; the   *)
(* empty sequence is Python's "" / None / [].                              *)
(***************************************************************************)
EXTENDS Integers, Sequences, FiniteSets, TLC

VARIABLES
  text,          \* jenkins_text handed to the operation under check
  pat,           \* start_pat handed to find_block
  pc,            \* position in the operation
  fb_result,     \* value returned by find_block: <<start, end>>
  ss_result,     \* value returned by split_stages
  outcome,       \* "none" | "error_no_pipeline" | "error_no_stages" | "ok"
  returned,      \* TRUE once convert_jenkins_to_gha returned (gha, action_paths)
  stages_list,   \* converter.py:49
  idx,           \* position of the for-loop of converter.py:173 (1-based)
  jobs,          \* gha["jobs"]: job id -> job definition
  job_keys,      \* insertion order of gha["jobs"] (Python dict order)
  stages_info,   \* converter.py:116
  last_job_ids,  \* converter.py:117
  prev_job_id,   \* converter.py:118
  action_paths,  \* converter.py:265
  written,       \* action directories written by save_enhanced_composite_actions
  action_files,  \* the action definitions written to them, in writing order
  docker_arg,  \* argument of convert_docker_steps when it is called on its own
  parameters,    \* converter.py:39
  pipeline_post, \* converter.py:52
  default_runs_on,    \* converter.py:55
  default_container,  \* converter.py:56
  global_env,         \* converter.py:43; gha["env"] is a copy of it (lines 70, 110-111)
  workflow_on,   \* gha["on"], converter.py:99-107
  result         \* value returned by the extractor or generator under check

vars == <<text, pat, pc, fb_result, ss_result, outcome, returned, stages_list, idx,
          jobs, job_keys, stages_info, last_job_ids, prev_job_id, action_paths, written,
          action_files, global_env, parameters, pipeline_post, default_runs_on, default_container, workflow_on,
          result, docker_arg>>

----------------------------------------------------------------------------
(* Bounds of the checked input spaces *)

MaxLen == 6

MaxJobs == 3

MaxDamaged == 1

MaxSteps == 3

MaxRich == 2

MaxParams == 3

MaxRecords == 3

MaxUnits == 3

MaxEnvStages == 2

----------------------------------------------------------------------------
(* Lexical items and Python indexing *)

Tok(t) == [t |-> t, n |-> <<>>, v |-> <<>>]

StageHdr(name) == [t |-> "stage", n |-> name, v |-> <<>>]

\* one match of a pattern that captures a quoted value
Item(t, n) == [t |-> t, n |-> n, v |-> <<>>]

\* one match of a pattern with two captures
Item2(t, n, v) == [t |-> t, n |-> n, v |-> v]

LB == Tok("{")

RB == Tok("}")

WS == Tok("ws")

X == Tok("x")

At(s, i) == s[i + 1]

Slice(s, a, b) == SubSeq(s, a + 1, b)

\* text[i] == '{' for some character of the item (a stage header ends with '{')
IsOpen(tok) == tok.t \in {"{", "stage"}

IsClose(tok) == tok.t = "}"

\* the first character of the item is '{'
StartsWithBrace(tok) == tok.t = "{"

IsSpace(tok) == tok.t = "ws"

NotFound == <<-1, -1>>

----------------------------------------------------------------------------
(* utils.py *)

\* re.search(start_pat, text): offset of the first match, -1 when there is none
RECURSIVE SearchFrom(_, _, _)
SearchFrom(s, p, i) ==
  IF i >= Len(s) THEN -1
  ELSE IF At(s, i).t = p THEN i
  ELSE SearchFrom(s, p, i + 1)

ReSearch(s, p) == SearchFrom(s, p, 0)

RECURSIVE SkipSpace(_, _)
SkipSpace(s, i) ==
  IF i < Len(s) /\ IsSpace(At(s, i)) THEN SkipSpace(s, i + 1) ELSE i

RECURSIVE ScanBlock(_, _, _)
ScanBlock(s, i, depth) ==
  IF i >= Len(s) THEN -1
  ELSE IF IsOpen(At(s, i)) THEN ScanBlock(s, i + 1, depth + 1)
  ELSE IF IsClose(At(s, i))
       THEN IF depth = 0 THEN i ELSE ScanBlock(s, i + 1, depth - 1)
  ELSE ScanBlock(s, i + 1, depth)

RECURSIVE ScanFirstClose(_, _)
ScanFirstClose(s, i) ==
  IF i >= Len(s) THEN -1
  ELSE IF IsClose(At(s, i)) THEN i
  ELSE ScanFirstClose(s, i + 1)

RECURSIVE SkipToBrace(_, _)
SkipToBrace(s, i) ==
  IF i < Len(s) /\ ~StartsWithBrace(At(s, i)) THEN SkipToBrace(s, i + 1) ELSE i

\* mutant: the depth counter is dropped, the block ends at the first '}'
find_block_nodepth(s, p) ==
  LET m == ReSearch(s, p) IN
  IF m = -1 THEN NotFound
  ELSE LET i == SkipSpace(s, m + 1) IN
       IF i >= Len(s) \/ ~StartsWithBrace(At(s, i)) THEN NotFound
       ELSE LET e == ScanFirstClose(s, i + 1) IN
            IF e = -1 THEN NotFound ELSE <<i + 1, e>>

\* mutant: the keyword is paired with the next brace, whatever lies between
find_block_laterbrace(s, p) ==
  LET m == ReSearch(s, p) IN
  IF m = -1 THEN NotFound
  ELSE LET i == SkipToBrace(s, m + 1) IN
       IF i >= Len(s) \/ ~StartsWithBrace(At(s, i)) THEN NotFound
       ELSE LET e == ScanBlock(s, i + 1, 0) IN
            IF e = -1 THEN NotFound ELSE <<i + 1, e>>

find_block(s, p) ==
  LET m == ReSearch(s, p) IN
  IF m = -1 THEN NotFound
  ELSE LET i == SkipSpace(s, m + 1) IN
       IF i >= Len(s) \/ ~StartsWithBrace(At(s, i)) THEN NotFound
       ELSE LET e == ScanBlock(s, i + 1, 0) IN
            IF e = -1 THEN NotFound ELSE <<i + 1, e>>

----------------------------------------------------------------------------
(* jenkins_extractors.py: split_stages *)

\* re.search(<stage header>, stages_body[i:]): absolute offset of the match, -1 if none
StageSearch(s, i) == SearchFrom(s, "stage", i)

\* The loop of split_stages.  hdr and close record where the entry was found:
\* hdr is the offset of the header's '{' (block_start), close the offset j of its '}'.
RECURSIVE SplitLoop(_, _, _)
SplitLoop(s, i, res) ==
  LET abs_start == StageSearch(s, i) IN
  IF abs_start = -1 THEN res
  ELSE LET block_start == abs_start
           j == ScanBlock(s, block_start + 1, 0)
       IN IF j = -1 THEN res
          ELSE SplitLoop(s, j + 1,
                 Append(res, [name    |-> At(s, abs_start).n,
                              content |-> Slice(s, block_start + 1, j),
                              hdr     |-> block_start,
                              close   |-> j]))

\* mutant: the search resumes inside the captured block instead of past its '}'
RECURSIVE SplitLoopInside(_, _, _)
SplitLoopInside(s, i, res) ==
  LET abs_start == StageSearch(s, i) IN
  IF abs_start = -1 THEN res
  ELSE LET block_start == abs_start
           j == ScanBlock(s, block_start + 1, 0)
       IN IF j = -1 THEN res
          ELSE SplitLoopInside(s, block_start + 1,
                 Append(res, [name    |-> At(s, abs_start).n,
                              content |-> Slice(s, block_start + 1, j),
                              hdr     |-> block_start,
                              close   |-> j]))

\* mutant: an unbalanced stage is skipped and the search goes on after its header
RECURSIVE SplitLoopSkip(_, _, _)
SplitLoopSkip(s, i, res) ==
  LET abs_start == StageSearch(s, i) IN
  IF abs_start = -1 THEN res
  ELSE LET block_start == abs_start
           j == ScanBlock(s, block_start + 1, 0)
       IN IF j = -1 THEN SplitLoopSkip(s, block_start + 1, res)
          ELSE SplitLoopSkip(s, j + 1,
                 Append(res, [name    |-> At(s, abs_start).n,
                              content |-> Slice(s, block_start + 1, j),
                              hdr     |-> block_start,
                              close   |-> j]))

split_stages_inside(s) == SplitLoopInside(s, 0, <<>>)

split_stages_skip(s) == SplitLoopSkip(s, 0, <<>>)

split_stages(s) == SplitLoop(s, 0, <<>>)

----------------------------------------------------------------------------
(* utils.py: names *)

Range(q) == {q[k] : k \in 1..Len(q)}

\* the letters and digits that occur in the checked inputs
LowerChars == <<"a", "b", "d", "g", "h", "i", "j", "k", "o", "p", "s", "t">>

UpperChars == <<"A", "B", "D", "G", "H", "I", "J", "K", "O", "P", "S", "T">>

Digits == {"0", "1", "2", "3", "4", "5", "6", "7", "8", "9"}

IsAlnum(c) == c \in Range(LowerChars) \cup Range(UpperChars) \cup Digits

CharIndex(q, c) == CHOOSE k \in 1..Len(q) : q[k] = c

Lower(c) == IF c \in Range(UpperChars) THEN LowerChars[CharIndex(UpperChars, c)] ELSE c

Upper(c) == IF c \in Range(LowerChars) THEN UpperChars[CharIndex(LowerChars, c)] ELSE c

UpperStr(q) == [k \in 1..Len(q) |-> Upper(q[k])]

\* str.replace(a, b) for one-character a and b
Replace(q, a, b) == [k \in 1..Len(q) |-> IF q[k] = a THEN b ELSE q[k]]

\* `sub in q` for strings
Contains(q, sub) ==
  \E k \in 0..(Len(q) - Len(sub)) : SubSeq(q, k + 1, k + Len(sub)) = sub

LowerStr(q) == [k \in 1..Len(q) |-> Lower(q[k])]

RECURSIVE LStrip(_, _)
LStrip(q, c) == IF q # <<>> /\ Head(q) = c THEN LStrip(Tail(q), c) ELSE q

RECURSIVE RStrip(_, _)
RStrip(q, c) ==
  IF q # <<>> /\ q[Len(q)] = c THEN RStrip(SubSeq(q, 1, Len(q) - 1), c) ELSE q

\* str.strip() with one character to strip (" " for whitespace)
Strip(q, c) == RStrip(LStrip(q, c), c)

RECURSIVE DropNonAlnum(_)
DropNonAlnum(q) ==
  IF q # <<>> /\ ~IsAlnum(Head(q)) THEN DropNonAlnum(Tail(q)) ELSE q

\* re.sub(r"[^a-zA-Z0-9]+", "-", q)
RECURSIVE SubRuns(_)
SubRuns(q) ==
  IF q = <<>> THEN <<>>
  ELSE IF IsAlnum(Head(q)) THEN <<Head(q)>> \o SubRuns(Tail(q))
  ELSE <<"-">> \o SubRuns(DropNonAlnum(Tail(q)))

DefaultJobId == <<"j", "o", "b">>

gha_job_id(name) ==
  LET slug == LowerStr(Strip(SubRuns(Strip(name, " ")), "-")) IN
  IF slug # <<>> THEN slug ELSE DefaultJobId

sanitize_name(name) ==
  LET q == Strip(name, " ") IN
  [k \in 1..Len(q) |-> IF IsAlnum(q[k]) \/ q[k] \in {"_", "-"} THEN q[k] ELSE "_"]

\* the chunks of a url before its first //
RECURSIVE BeforeSlashes(_)
BeforeSlashes(url) ==
  IF url = <<>> \/ Head(url) = "//" THEN <<>> ELSE <<Head(url)>> \o BeforeSlashes(Tail(url))

\* re.sub(r"//.*", "", text) removes a // comment, and also the rest of a line
\* from the // of a url on
CutUrl(tok) ==
  IF tok.t = "giturl" /\ "//" \in Range(tok.n)
  THEN Item("gitcut", BeforeSlashes(tok.n)) ELSE tok

strip_comments(s) ==
  LET kept == SelectSeq(s, LAMBDA tok : tok.t # "comment") IN
  SubSeq([k \in 1..Len(kept) |-> CutUrl(kept[k])], 1, Len(kept))

----------------------------------------------------------------------------
(* jenkins_extractors.py: what the orchestrator reads from a stage body *)

extract_parallel(stage_body) ==
  LET sp == find_block(stage_body, "parallel") IN
  IF sp[1] = -1 THEN <<>>
  ELSE split_stages(Slice(stage_body, sp[1], sp[2]))

extract_input_steps(stage_body) == SelectSeq(stage_body, LAMBDA tok : tok.t = "input")

\* the captured values of the items of the given kinds, in the order of the text
RECURSIVE Captures(_, _)
Captures(s, kinds) ==
  IF s = <<>> THEN <<>>
  ELSE (IF Head(s).t \in kinds THEN <<Head(s).n>> ELSE <<>>) \o Captures(Tail(s), kinds)

\* re.search(<kind> '...'): the value captured by the first match, "" without a match
FirstCapture(s, kind) ==
  LET c == Captures(s, {kind}) IN IF c = <<>> THEN <<>> ELSE Head(c)

IsQuote(c) == c \in {"'", "\""}

RECURSIVE TakeNonQuote(_)
TakeNonQuote(q) ==
  IF q = <<>> \/ IsQuote(Head(q)) THEN <<>> ELSE <<Head(q)>> \o TakeNonQuote(Tail(q))

\* re.findall(r"['\"]?([^'\"]+)['\"]?", cred_list): every maximal run of characters
\* that are not quotes
RECURSIVE FindallNonQuote(_)
FindallNonQuote(q) ==
  IF q = <<>> THEN <<>>
  ELSE IF IsQuote(Head(q)) THEN FindallNonQuote(Tail(q))
  ELSE LET r == TakeNonQuote(q) IN
       <<r>> \o FindallNonQuote(SubSeq(q, Len(r) + 1, Len(q)))

\* jenkins_extractors.py:123-127 for one sshagent([...]) match
SshAgentCreds(cred_list) ==
  {Strip(r, " ") : r \in {x \in Range(FindallNonQuote(cred_list)) : Strip(x, " ") # <<>>}}

\* a git step carries a credentialsId: '...' of its own
extract_credentials_usage(stage_body) ==
  {c \in Range(Captures(stage_body, {"cred", "git"})) : c # <<>>}
    \cup Range(Captures(stage_body, {"credcall"}))
    \cup UNION {SshAgentCreds(l) : l \in Range(Captures(stage_body, {"sshagent"}))}

\* a Python dict as a function; the empty dict
EmptyDict == [k \in {} |-> <<>>]

\* the content of the block `kw { ... }` of body, "" when find_block finds none
BlockOf(body, kw) ==
  LET sp == find_block(body, kw) IN
  IF sp[1] = -1 THEN <<>> ELSE Slice(body, sp[1], sp[2])

HasBlock(body, kw) == find_block(body, kw)[1] # -1

ToolKinds == {"maven", "jdk", "nodejs"}

\* the git entry of a tools block has no effect on the generated steps and is left out
extract_tools(stage_body) ==
  LET tools_body == BlockOf(stage_body, "tools") IN
  IF ~HasBlock(stage_body, "tools") THEN EmptyDict
  ELSE [k \in {x \in ToolKinds : Captures(tools_body, {x}) # <<>>} |->
          FirstCapture(tools_body, k)]

GitUrl == <<"o/r">>

\* an item that holds a quote character
HasQuote(tok) == tok.n # <<>> \/ tok.v # <<>>

\* the position of the first item with a quote, 0 if there is none
RECURSIVE NextQuote(_, _)
NextQuote(s, k) ==
  IF k > Len(s) THEN 0 ELSE IF HasQuote(s[k]) THEN k ELSE NextQuote(s, k + 1)

\* one record per match of the git pattern that has a url. After a cut git step
\* the url group [^'"]+ runs on to the next quote of the body: the url is the
\* rest of the cut url, a line break and the text up to that quote, and the
\* scan goes on behind the quote; without a later quote the url group does not
\* match and no record is added.
RECURSIVE extract_git_steps(_)
extract_git_steps(stage_body) ==
  IF stage_body = <<>> THEN <<>>
  ELSE LET tok  == Head(stage_body)
           rest == Tail(stage_body)
           q    == NextQuote(rest, 1)
       IN CASE tok.t = "git" ->
                 <<[branch |-> tok.v, url |-> GitUrl, credentialsId |-> tok.n]>>
                   \o extract_git_steps(rest)
            [] tok.t = "giturl" ->
                 <<[branch |-> <<>>, url |-> tok.n, credentialsId |-> <<>>]>>
                   \o extract_git_steps(rest)
            [] tok.t = "gitcut" /\ q # 0 ->
                 <<[branch |-> <<>>, url |-> tok.n \o <<"\n", rest[q].t>>,
                    credentialsId |-> <<>>]>>
                   \o extract_git_steps(SubSeq(rest, q + 1, Len(rest)))
            [] OTHER -> extract_git_steps(rest)

extract_sonarqube_steps(stage_body) ==
  LET g == SelectSeq(stage_body, LAMBDA tok : tok.t = "sonar") IN
  [k \in 1..Len(g) |-> [commands |-> <<g[k].n>>]]

\* the commands of the single-line sh steps that run `docker <verb> ...`
DockerCmds(stage_body, verb) ==
  SelectSeq(Captures(stage_body, {"sh"}),
            LAMBDA c : Len(c) >= 3 /\ c[1] = "docker" /\ c[2] = verb)

\* the closing quote of the sh step, which [^\s]+ and .+ capture with the last word
ClosingQuote == <<"'">>

\* docker build (-t)? <tag> <context>: tag is the next word, context the rest of the line
BuildRecord(c) ==
  LET rest == IF c[3] = "-t" THEN SubSeq(c, 4, Len(c)) ELSE SubSeq(c, 3, Len(c)) IN
  IF Len(rest) = 1
  THEN [type |-> "build", tag |-> rest \o ClosingQuote, context |-> <<".">>]
  ELSE [type |-> "build", tag |-> <<Head(rest)>>, context |-> Tail(rest) \o ClosingQuote]

PushRecord(c) ==
  [type |-> "push",
   tag  |-> IF Len(c) = 3 THEN <<c[3]>> \o ClosingQuote ELSE <<c[3]>>,
   context |-> <<>>]

extract_docker_steps(stage_body) ==
  LET b == DockerCmds(stage_body, "build")
      q == DockerCmds(stage_body, "push")
  IN [k \in 1..Len(b) |-> BuildRecord(b[k])] \o [k \in 1..Len(q) |-> PushRecord(q[k])]

extract_kubectl_steps(stage_body) ==
  SelectSeq(Captures(stage_body, {"sh"}), LAMBDA c : Len(c) >= 2 /\ c[1] = "kubectl")

\* the lines of a triple-quoted string, empty lines dropped
multiline_to_commands(lines) == SelectSeq(lines, LAMBDA ln : ln # <<>>)

RECURSIVE TripleCommands(_)
TripleCommands(s) ==
  IF s = <<>> THEN <<>>
  ELSE (IF Head(s).t = "sh3" THEN multiline_to_commands(Head(s).v) ELSE <<>>)
       \o TripleCommands(Tail(s))

EchoCommands(s) ==
  LET e == Captures(s, {"echo"}) IN [k \in 1..Len(e) |-> <<"echo">> \o e[k]]

\* the sh step inside withSonarQubeEnv(...) { ... } is a single-line sh step too
extract_steps_commands(stage_body) ==
  LET search_zone == IF HasBlock(stage_body, "steps")
                     THEN BlockOf(stage_body, "steps") ELSE stage_body
      zone == strip_comments(search_zone)
  IN TripleCommands(zone) \o Captures(zone, {"sh", "sonar"}) \o EchoCommands(zone)

\* env[key] = val line by line: the last line of a key wins
extract_env_kv(env_body) ==
  LET lines == SelectSeq(env_body, LAMBDA tok : tok.t = "env") IN
  [key \in {lines[k].n : k \in 1..Len(lines)} |->
     lines[CHOOSE k \in 1..Len(lines) :
             /\ lines[k].n = key
             /\ \A m \in 1..Len(lines) : lines[m].n = key => m <= k].v]

extract_stage_environment(stage_body) ==
  IF ~HasBlock(stage_body, "environment") THEN EmptyDict
  ELSE extract_env_kv(BlockOf(stage_body, "environment"))

PostKinds == <<"always", "success", "failure", "cleanup">>

\* _collect(kind): absent entries are empty
Collect(post_body, kind) ==
  LET kbody == BlockOf(post_body, kind) IN
  [archive  |-> FirstCapture(kbody, "archive"),
   commands |-> Captures(kbody, {"sh"}) \o TripleCommands(kbody) \o EchoCommands(kbody),
   mail_to  |-> FirstCapture(kbody, "mail")]

NoData == [archive |-> <<>>, commands |-> <<>>, mail_to |-> <<>>]

_extract_post_body(body) ==
  IF ~HasBlock(body, "post") THEN EmptyDict
  ELSE LET post_body == BlockOf(body, "post") IN
       [k \in {x \in Range(PostKinds) : Collect(post_body, x) # NoData} |->
          Collect(post_body, k)]

extract_stage_post(stage_body) == _extract_post_body(stage_body)

LabelAgent(label) == [type |-> "label", label |-> Strip(label, " ")]

\* reuseNode is read by no consumer and is left out
DockerAgent(docker_body) ==
  LET img  == FirstCapture(docker_body, "image")
      args == FirstCapture(docker_body, "args")
  IN IF args # <<>>
     THEN [type |-> "docker", image |-> Strip(img, " "), args |-> Strip(args, " ")]
     ELSE [type |-> "docker", image |-> Strip(img, " ")]

\* jenkins_extractors.py:221-254: the agent read from the content of an agent block
AgentFromBody(agent_body) ==
  IF ReSearch(agent_body, "any") # -1 THEN [type |-> "any"]
  ELSE IF FirstCapture(BlockOf(agent_body, "node"), "label") # <<>>
       THEN LabelAgent(FirstCapture(BlockOf(agent_body, "node"), "label"))
  ELSE IF FirstCapture(agent_body, "label") # <<>>
       THEN LabelAgent(FirstCapture(agent_body, "label"))
  ELSE IF FirstCapture(BlockOf(agent_body, "docker"), "image") # <<>>
       THEN DockerAgent(BlockOf(agent_body, "docker"))
  ELSE EmptyDict

extract_global_agent(pipeline_body) ==
  IF ~HasBlock(pipeline_body, "agent") THEN EmptyDict
  ELSE AgentFromBody(BlockOf(pipeline_body, "agent"))

extract_stage_agent(stage_body) ==
  IF ~HasBlock(stage_body, "agent") THEN EmptyDict
  ELSE AgentFromBody(BlockOf(stage_body, "agent"))

\* params[name] = {...} on a dict
PutParam(params, name, info) ==
  [k \in (DOMAIN params) \cup {name} |-> IF k = name THEN info ELSE params[k]]

\* the descriptor built from one match; True/False stand for the Python booleans
ParamInfo(tok) ==
  CASE tok.t = "string" ->
         [type |-> "string", default |-> tok.v, description |-> <<>>]
    [] tok.t = "booleanParam" ->
         [type |-> "boolean",
          default |-> IF LowerStr(tok.v) = <<"true">> THEN <<"True">> ELSE <<"False">>,
          description |-> <<>>]
    [] tok.t = "choice" ->
         [type |-> "choice", options |-> tok.v,
          default |-> IF tok.v # <<>> THEN tok.v[1] ELSE <<>>,
          description |-> <<>>]

\* one for-loop of extract_parameters: the matches of one kind, in text order
RECURSIVE ParamPass(_, _, _)
ParamPass(params, param_body, kind) ==
  IF param_body = <<>> THEN params
  ELSE ParamPass(IF Head(param_body).t = kind
                 THEN PutParam(params, Head(param_body).n, ParamInfo(Head(param_body)))
                 ELSE params,
                 Tail(param_body), kind)

extract_parameters(pipeline_body) ==
  IF ~HasBlock(pipeline_body, "parameters") THEN EmptyDict
  ELSE LET param_body == BlockOf(pipeline_body, "parameters") IN
       ParamPass(ParamPass(ParamPass(EmptyDict, param_body, "string"),
                           param_body, "booleanParam"),
                 param_body, "choice")

extract_pipeline_post(pipeline_body) == _extract_post_body(pipeline_body)

----------------------------------------------------------------------------
(* action_generator.py *)

ApprovalPrefix == <<"approval-">>

ActionsDir == <<"./.github/actions/">>

convert_input_steps_to_environment(input_steps, stage_name) ==
  IF input_steps # <<>>
  THEN ApprovalPrefix \o sanitize_name(LowerStr(stage_name))
  ELSE <<>>

\* the metadata record appended for one stage
ActionInfo(stage_info) ==
  [name                 |-> stage_info.name,
   path                 |-> ActionsDir \o sanitize_name(LowerStr(stage_info.name)),
   approval_environment |-> convert_input_steps_to_environment(
                               extract_input_steps(stage_info.body), stage_info.name),
   credentials          |-> extract_credentials_usage(stage_info.body)]

save_enhanced_composite_actions(info) == [k \in 1..Len(info) |-> ActionInfo(info[k])]

\* one step of a composite action or of a job; absent keys are empty
Step(name, uses, run, cond, with) ==
  [name |-> name, uses |-> uses, run |-> run, cond |-> cond, with |-> with]

JavaVersion(tools) ==
  IF "jdk" \notin DOMAIN tools THEN <<"8">>
  ELSE LET jdk_name == LowerStr(tools["jdk"]) IN
       IF Contains(jdk_name, <<"1", "1">>) THEN <<"11">>
       ELSE IF Contains(jdk_name, <<"1", "7">>) THEN <<"17">>
       ELSE IF Contains(jdk_name, <<"2", "1">>) THEN <<"21">>
       ELSE <<"8">>

NodeVersion(tools) ==
  LET nodejs_name == LowerStr(tools["nodejs"]) IN
  IF Contains(nodejs_name, <<"1", "6">>) THEN <<"16">>
  ELSE IF Contains(nodejs_name, <<"2", "0">>) THEN <<"20">>
  ELSE <<"18">>

generate_tool_setup_steps(tools) ==
  (IF "jdk" \in DOMAIN tools \/ "maven" \in DOMAIN tools
   THEN <<Step(<<"Set up JDK">>, <<"actions/setup-java@v4">>, <<>>, <<>>,
               [java_version |-> JavaVersion(tools)])>>
   ELSE <<>>)
  \o (IF "maven" \in DOMAIN tools
      THEN <<Step(<<"Cache Maven packages">>, <<"actions/cache@v3">>, <<>>, <<>>,
                  [path |-> <<"~/.m2">>])>>
      ELSE <<>>)
  \o (IF "nodejs" \in DOMAIN tools
      THEN <<Step(<<"Set up Node.js">>, <<"actions/setup-node@v4">>, <<>>, <<>>,
                  [node_version |-> NodeVersion(tools)])>>
      ELSE <<>>)

\* "${{ secrets.<name> }}"
SecretRef(name) == <<"secrets.">> \o name

\* action_generator.py:112 and :306
SecretName(cred_id) == Replace(UpperStr(cred_id), "-", "_")

GitHubPrefix == <<"https:", "//", "github.com/">>

\* url.startswith("https://github.com/")
StartsWithGitHub(url) == Len(url) >= 3 /\ SubSeq(url, 1, 3) = GitHubPrefix

\* url.startswith("http")
StartsWithHttp(url) == url # <<>> /\ url[1] \in {"http:", "https:"}

\* "/" in url
HasSlash(url) == \E k \in 1..Len(url) : url[k] \in {"/", "//", "github.com/", "o/r"}

\* url.replace("https://github.com/", "").replace(".git", "")
RepoOfGitHubUrl(url) ==
  SelectSeq(SubSeq(url, 4, Len(url)), LAMBDA chunk : chunk # ".git")

HasRepository(url) ==
  url # <<>> /\ (StartsWithGitHub(url) \/ (HasSlash(url) /\ ~StartsWithHttp(url)))

CheckoutWith(git_step) ==
  [k \in (IF HasRepository(git_step.url) THEN {"repository"} ELSE {})
        \cup (IF git_step.branch # <<>> THEN {"ref"} ELSE {})
        \cup (IF git_step.credentialsId # <<>> THEN {"token"} ELSE {}) |->
     CASE k = "repository" -> IF StartsWithGitHub(git_step.url)
                              THEN RepoOfGitHubUrl(git_step.url) ELSE git_step.url
       [] k = "ref"        -> git_step.branch
       [] k = "token"      -> SecretRef(SecretName(git_step.credentialsId))]

convert_git_steps_to_actions(git_steps) ==
  [k \in 1..Len(git_steps) |->
     Step(<<"Checkout code">>, <<"actions/checkout@v4">>, <<>>, <<>>,
          CheckoutWith(git_steps[k]))]

RECURSIVE convert_sonarqube_steps(_)
convert_sonarqube_steps(sonar_steps) ==
  IF sonar_steps = <<>> THEN <<>>
  ELSE LET cmds == Head(sonar_steps).commands IN
       <<Step(<<"SonarQube Scan">>, <<"sonarqube-scan-action@master">>, <<>>, <<>>, EmptyDict)>>
       \o [k \in 1..Len(cmds) |->
             Step(<<"Run SonarQube analysis">>, <<>>, cmds[k], <<>>, EmptyDict)]
       \o convert_sonarqube_steps(Tail(sonar_steps))

LoginStep ==
  Step(<<"Login to DockerHub">>, <<"docker/login-action@v2">>, <<>>, <<>>,
       [username |-> SecretRef(<<"DOCKER_USERNAME">>),
        password |-> SecretRef(<<"DOCKER_PASSWORD">>)])

BuildStep(d) ==
  Step(<<"Build Docker image">>, <<>>, <<"docker", "build", "-t">> \o d.tag \o d.context,
       <<>>, EmptyDict)

PushStep(d) ==
  Step(<<"Push Docker image">>, <<>>, <<"docker", "push">> \o d.tag, <<>>, EmptyDict)

\* the loop of convert_docker_steps; acc is docker_actions
RECURSIVE DockerLoop(_, _)
DockerLoop(docker_steps, acc) ==
  IF docker_steps = <<>> THEN acc
  ELSE LET d == Head(docker_steps) IN
       IF d.type = "build"
       THEN DockerLoop(Tail(docker_steps), Append(acc, BuildStep(d)))
       ELSE IF d.type = "push"
       THEN DockerLoop(Tail(docker_steps),
              (IF \E k \in 1..Len(acc) : acc[k].uses = LoginStep.uses
               THEN acc ELSE Append(acc, LoginStep))
              \o <<PushStep(d)>>)
       ELSE DockerLoop(Tail(docker_steps), acc)

\* a login step before every push step
RECURSIVE convert_docker_steps_login_each(_)
convert_docker_steps_login_each(docker_steps) ==
  IF docker_steps = <<>> THEN <<>>
  ELSE LET d == Head(docker_steps) IN
       (IF d.type = "build" THEN <<BuildStep(d)>>
        ELSE IF d.type = "push" THEN <<LoginStep, PushStep(d)>> ELSE <<>>)
       \o convert_docker_steps_login_each(Tail(docker_steps))

convert_docker_steps(docker_steps) == DockerLoop(docker_steps, <<>>)

\* action_generator.py:269-275: the command is left to a specialised step
IsFiltered(cmd, sonar_steps) ==
  \/ Len(cmd) >= 2 /\ cmd[1] = "git"
  \/ "withSonarQubeEnv" \in Range(cmd)
  \/ Len(cmd) >= 2 /\ cmd[1] = "docker" /\ cmd[2] \in {"build", "push"}
  \/ Contains(cmd, <<"mvn", "sonar:sonar">>) /\ sonar_steps # <<>>

RunSteps(cmds) ==
  [i \in 1..Len(cmds) |->
     Step(<<"Run command ", ToString(i)>>, <<>>, cmds[i], <<>>, EmptyDict)]

KubectlSteps(cmds) ==
  [i \in 1..Len(cmds) |-> Step(<<"Run kubectl command">>, <<>>, cmds[i], <<>>, EmptyDict)]

\* 'ssh' in cred.lower()
HasSsh(cred) == Contains(LowerStr(cred), <<"s", "s", "h">>)

\* the orders in which Python may iterate over a set of strings
Orders(S) == {q \in [1..Cardinality(S) -> S] : Range(q) = S}

SshSteps(order) ==
  [i \in 1..Len(order) |->
     Step(<<"Execute SSH commands">>, <<"appleboy/ssh-action@v0.1.5">>, <<>>, <<>>,
          [key |-> SecretRef(SecretName(order[i]))])]

Cond(kind) == <<kind, "()">>

\* action_generator.py:312-331 for one kind
StagePostSteps(stage_name, post_info, kind) ==
  IF kind \notin DOMAIN post_info THEN <<>>
  ELSE LET pdata == post_info[kind] IN
       (IF pdata.archive # <<>>
        THEN <<Step(<<"Upload artifacts (", kind, ")">>, <<"actions/upload-artifact@v4">>,
                    <<>>, Cond(kind),
                    [name |-> sanitize_name(stage_name) \o <<"-", kind, "-artifacts">>,
                     path |-> pdata.archive])>>
        ELSE <<>>)
       \o [i \in 1..Len(pdata.commands) |->
             Step(<<"Post ", kind>>, <<>>, pdata.commands[i], Cond(kind), EmptyDict)]

\* mutant: the kubectl steps are emitted before the plain run-commands
generate_action_kubectl_first(stage_name, stage_body, post_info, ssh_order) ==
  LET sonar_steps == extract_sonarqube_steps(stage_body)
      filtered_commands == SelectSeq(extract_steps_commands(stage_body),
                                     LAMBDA cmd : ~IsFiltered(cmd, sonar_steps))
  IN [name  |-> stage_name \o <<" Action">>,
      steps |-> generate_tool_setup_steps(extract_tools(stage_body))
                \o convert_git_steps_to_actions(extract_git_steps(stage_body))
                \o convert_sonarqube_steps(sonar_steps)
                \o convert_docker_steps(extract_docker_steps(stage_body))
                \o KubectlSteps(extract_kubectl_steps(stage_body))
                \o RunSteps(filtered_commands)
                \o SshSteps(ssh_order)
                \o StagePostSteps(stage_name, post_info, "always")
                \o StagePostSteps(stage_name, post_info, "success")
                \o StagePostSteps(stage_name, post_info, "failure")]

\* ssh_order is the order in which the set of SSH credentials is iterated
generate_enhanced_composite_action(stage_name, stage_body, post_info, ssh_order) ==
  LET sonar_steps == extract_sonarqube_steps(stage_body)
      filtered_commands == SelectSeq(extract_steps_commands(stage_body),
                                     LAMBDA cmd : ~IsFiltered(cmd, sonar_steps))
  IN [name  |-> stage_name \o <<" Action">>,
      steps |-> generate_tool_setup_steps(extract_tools(stage_body))
                \o convert_git_steps_to_actions(extract_git_steps(stage_body))
                \o convert_sonarqube_steps(sonar_steps)
                \o convert_docker_steps(extract_docker_steps(stage_body))
                \o RunSteps(filtered_commands)
                \o KubectlSteps(extract_kubectl_steps(stage_body))
                \o SshSteps(ssh_order)
                \o StagePostSteps(stage_name, post_info, "always")
                \o StagePostSteps(stage_name, post_info, "success")
                \o StagePostSteps(stage_name, post_info, "failure")]

\* the credentials generate_enhanced_composite_action turns into SSH steps
SshCredentials(stage_body) == {c \in extract_credentials_usage(stage_body) : HasSsh(c)}

\* action_generator.py:344-361: the definitions written for the stages, one per
\* stage in order; post is the stage's post information (converter.py:194, 232)
RECURSIVE ActionFiles(_)
ActionFiles(info) ==
  IF info = <<>> THEN {<<>>}
  ELSE LET stage_info == Head(info) IN
       {<<generate_enhanced_composite_action(stage_info.name, stage_info.body,
                                             extract_stage_post(stage_info.body), order)>>
          \o tl : order \in Orders(SshCredentials(stage_info.body)),
                  tl \in ActionFiles(Tail(info))}

\* the action directories action.yml is written to, in writing order
WrittenActions(info) == [k \in 1..Len(info) |-> sanitize_name(LowerStr(info[k].name))]

----------------------------------------------------------------------------
(* converter.py *)

CheckoutStep == Step(<<>>, <<"actions/checkout@v4">>, <<>>, <<>>, EmptyDict)

\* "git" in str(cred).lower()
HasGit(cred) == Contains(LowerStr(cred), <<"g", "i", "t">>)

create_enhanced_job_steps(action_info) ==
  (IF \E cred \in action_info.credentials : HasGit(cred) THEN <<>> ELSE <<CheckoutStep>>)
  \o <<Step(<<"Run ">> \o action_info.name, action_info.path, <<>>, <<>>, EmptyDict)>>

\* mutant: a pipeline without a stages block is converted as one without stages
ParseResultLenient(jenkins_text) ==
  LET t  == strip_comments(jenkins_text)
      ps == find_block(t, "pipeline")
  IN IF ps[1] = -1 THEN [outcome |-> "error_no_pipeline", stages |-> <<>>]
     ELSE LET pipeline_body == Slice(t, ps[1], ps[2])
              st == find_block(pipeline_body, "stages")
          IN IF st[1] = -1 THEN [outcome |-> "ok", stages |-> <<>>]
             ELSE [outcome |-> "ok",
                   stages  |-> split_stages(Slice(pipeline_body, st[1], st[2]))]

\* converter.py:29-49: the front of the conversion
ParseResult(jenkins_text) ==
  LET t  == strip_comments(jenkins_text)
      ps == find_block(t, "pipeline")
  IN IF ps[1] = -1 THEN [outcome |-> "error_no_pipeline", stages |-> <<>>]
     ELSE LET pipeline_body == Slice(t, ps[1], ps[2])
              st == find_block(pipeline_body, "stages")
          IN IF st[1] = -1 THEN [outcome |-> "error_no_stages", stages |-> <<>>]
             ELSE [outcome |-> "ok",
                   stages  |-> split_stages(Slice(pipeline_body, st[1], st[2]))]

\* converter.py:35
PipelineBody(jenkins_text) ==
  LET t  == strip_comments(jenkins_text)
      ps == find_block(t, "pipeline")
  IN Slice(t, ps[1], ps[2])

UbuntuLatest == <<"ubuntu-latest">>

\* the label-to-runner mapper: a function of the label alone
map_label_to_runs_on(label) == <<"runner-of:">> \o label

ContainerOf(agent) ==
  IF "args" \in DOMAIN agent
  THEN [image |-> agent.image, options |-> agent.args]
  ELSE [image |-> agent.image]

\* converter.py:55-66; None is the empty sequence
DefaultRunsOn(global_agent) ==
  IF global_agent # EmptyDict /\ global_agent.type = "label"
  THEN map_label_to_runs_on(global_agent.label)
  ELSE UbuntuLatest

DefaultContainer(global_agent) ==
  IF global_agent # EmptyDict /\ global_agent.type = "docker"
  THEN ContainerOf(global_agent)
  ELSE <<>>

\* converter.py:68-94
WorkflowInputs(params) ==
  [name \in DOMAIN params |->
     LET info == params[name]
         desc == IF info.description # <<>> THEN info.description
                 ELSE <<"Parameter ">> \o name
     IN IF info.type = "choice"
        THEN [description |-> desc, required |-> FALSE, default |-> info.default,
              type |-> info.type, options |-> info.options]
        ELSE [description |-> desc, required |-> FALSE, default |-> info.default,
              type |-> info.type]]

\* mutant: the manual-dispatch trigger is declared whether or not there are inputs
WorkflowOnDispatchAlways(workflow_inputs) ==
  [k \in {"push", "pull_request", "workflow_dispatch"} |->
     CASE k = "push"              -> [branches |-> <<"master", "main">>]
       [] k = "pull_request"      -> EmptyDict
       [] k = "workflow_dispatch" -> [inputs |-> workflow_inputs]]

\* converter.py:97-107: gha["on"]
WorkflowOn(workflow_inputs) ==
  [k \in {"push", "pull_request"}
        \cup (IF workflow_inputs # EmptyDict THEN {"workflow_dispatch"} ELSE {}) |->
     CASE k = "push"              -> [branches |-> <<"master", "main">>]
       [] k = "pull_request"      -> EmptyDict
       [] k = "workflow_dispatch" -> [inputs |-> workflow_inputs]]

\* job_def with runs-on and container set from the agent of the stage
apply_agent_to_job(job_def, stage_agent) ==
  IF stage_agent = EmptyDict
  THEN [job_def EXCEPT !.runs_on = default_runs_on, !.container = default_container]
  ELSE CASE stage_agent.type = "any" ->
              [job_def EXCEPT !.runs_on = UbuntuLatest]
         [] stage_agent.type = "label" ->
              [job_def EXCEPT !.runs_on = map_label_to_runs_on(stage_agent.label)]
         [] stage_agent.type = "docker" ->
              [job_def EXCEPT !.runs_on = UbuntuLatest,
                              !.container = ContainerOf(stage_agent)]

\* converter.py:180
Upstream(prev, last) ==
  IF prev # <<>> THEN prev ELSE IF last # <<>> THEN last[Len(last)] ELSE <<>>

\* mutant: a sequential stage after a parallel group waits for its last branch only
SeqNeedsLastOnly(last, prev) ==
  IF last # <<>> THEN <<last[Len(last)]>> ELSE IF prev # <<>> THEN <<prev>> ELSE <<>>

\* converter.py:252-256: the `needs` of a sequential stage
SeqNeeds(last, prev) ==
  IF last # <<>> THEN last ELSE IF prev # <<>> THEN <<prev>> ELSE <<>>

\* mutant: the ids of the parallel group are not cleared by the sequential stage
AfterSequentialKeepGroup(last, job_id) ==
  [last_job_ids |-> last, prev_job_id |-> job_id]

\* converter.py:252-262: the predecessor state a sequential stage leaves
\* (`if last_job_ids: ... last_job_ids = []`, then `prev_job_id = job_id`)
AfterSequential(last, job_id) ==
  [last_job_ids |-> IF last # <<>> THEN <<>> ELSE last, prev_job_id |-> job_id]

\* converter.py:221-222: the predecessor state a parallel group leaves
AfterParallel(parallel_ids) ==
  [last_job_ids |-> parallel_ids, prev_job_id |-> <<>>]

\* gha["jobs"][job_id] = job_def on an insertion-ordered dict
PutJob(js, id, def) == [k \in (DOMAIN js) \cup {id} |-> IF k = id THEN def ELSE js[k]]

PutKey(keys, id) == IF id \in Range(keys) THEN keys ELSE Append(keys, id)

\* converter.py:119-129: the keys of the stage that are new or differ from the
\* pipeline-level value
compute_job_env(stage_env) ==
  IF DOMAIN stage_env = {} THEN EmptyDict
  ELSE IF DOMAIN global_env = {} THEN stage_env
  ELSE [k \in {x \in DOMAIN stage_env :
                 x \notin DOMAIN global_env \/ global_env[x] # stage_env[x]} |->
          stage_env[k]]

\* src is not a field of the Python job definition: it records which entry of
\* stages_info the definition was built from.  Absent keys are empty; the stages
\* of the inputs have no `when`, so a stage job has no `if`.
JobDef(needs, src, stage_agent, job_env) ==
  apply_agent_to_job(
    [needs |-> needs, steps |-> <<CheckoutStep>>, environment |-> <<>>, src |-> src,
     runs_on |-> <<>>, container |-> <<>>, cond |-> <<>>, env |-> job_env],
    stage_agent)

\* converter.py:183-219: the loop over the branches of one parallel block
RECURSIVE ParallelLoop(_, _, _, _)
ParallelLoop(subs, k, upstream, st) ==
  IF k > Len(subs) THEN st
  ELSE LET job_id == gha_job_id(subs[k].name)
           info   == Append(st.info, [name |-> subs[k].name, body |-> subs[k].content])
           def    == JobDef(IF upstream # <<>> THEN <<upstream>> ELSE <<>>, Len(info),
                            extract_stage_agent(subs[k].content),
                            compute_job_env(extract_stage_environment(subs[k].content)))
       IN ParallelLoop(subs, k + 1, upstream,
            [jobs |-> PutJob(st.jobs, job_id, def),
             keys |-> PutKey(st.keys, job_id),
             info |-> info,
             pids |-> Append(st.pids, job_id)])

----------------------------------------------------------------------------
(* Brace counting, stated on the text alone (used by the properties) *)

OpenCount(s, a, b) == Cardinality({k \in a..b : IsOpen(At(s, k))})

CloseCount(s, a, b) == Cardinality({k \in a..b : IsClose(At(s, k))})

\* the '}' at offset j is the one that closes the '{' at offset b
ClosesAt(s, b, j) ==
  /\ b < j /\ j < Len(s)
  /\ IsClose(At(s, j))
  /\ CloseCount(s, b + 1, j) = OpenCount(s, b + 1, j) + 1
  /\ \A k \in (b + 1)..(j - 1) : CloseCount(s, b + 1, k) <= OpenCount(s, b + 1, k)

\* the '{' at offset b is never closed before the end of the text
NeverClosed(s, b) ==
  \A j \in (b + 1)..(Len(s) - 1) : CloseCount(s, b + 1, j) <= OpenCount(s, b + 1, j)

FirstAt(s, p, m) ==
  /\ m \in 0..(Len(s) - 1)
  /\ At(s, m).t = p
  /\ \A k \in 0..(m - 1) : At(s, k).t # p

\* q is the offset of the first non-whitespace character after the match at m
AfterSpace(s, m, q) ==
  /\ q \in (m + 1)..Len(s)
  /\ \A k \in (m + 1)..(q - 1) : IsSpace(At(s, k))
  /\ (q < Len(s) => ~IsSpace(At(s, q)))

KwNoBrace(s, p) ==
  \E m \in 0..(Len(s) - 1) :
    /\ FirstAt(s, p, m)
    /\ \E q \in (m + 1)..Len(s) :
         /\ AfterSpace(s, m, q)
         /\ (q = Len(s) \/ ~StartsWithBrace(At(s, q)))

KwUnclosed(s, p) ==
  \E m \in 0..(Len(s) - 1) :
    /\ FirstAt(s, p, m)
    /\ \E q \in (m + 1)..(Len(s) - 1) :
         /\ AfterSpace(s, m, q)
         /\ StartsWithBrace(At(s, q))
         /\ NeverClosed(s, q)

\* the text holds no `p { ... }` block: no match of p, or the first match is not
\* followed by '{', or that '{' is never closed
NoBlock(s, p) ==
  \/ \A i \in 0..(Len(s) - 1) : At(s, i).t # p
  \/ KwNoBrace(s, p)
  \/ KwUnclosed(s, p)

\* the text holds a pipeline { ... } block whose content holds no stages { ... } block
NoStagesInPipeline(s) ==
  \E m \in 0..(Len(s) - 1) :
    /\ FirstAt(s, "pipeline", m)
    /\ \E q \in (m + 1)..(Len(s) - 1) :
         /\ AfterSpace(s, m, q)
         /\ StartsWithBrace(At(s, q))
         /\ \E j \in (q + 1)..(Len(s) - 1) :
              /\ ClosesAt(s, q, j)
              /\ NoBlock(Slice(s, q + 1, j), "stages")

----------------------------------------------------------------------------
(* Inputs of the text-level checks *)

SeqsUpTo(A, n) == UNION {[1..k -> A] : k \in 0..n}

AlphabetFB == {Tok("parallel"), WS, LB, RB, X}

PatternsFB == {"parallel", "stages"}

NameA == <<"a">>

NameB == <<"b">>

AlphabetSS == {StageHdr(NameA), StageHdr(NameB), LB, RB, X}

NoJobs == [k \in {} |-> 0]

Idle ==
  /\ outcome = "none" /\ returned = FALSE
  /\ stages_list = <<>> /\ idx = 0
  /\ jobs = NoJobs /\ job_keys = <<>>
  /\ stages_info = <<>> /\ last_job_ids = <<>> /\ prev_job_id = <<>>
  /\ action_paths = <<>> /\ written = <<>> /\ action_files = <<>>
  /\ parameters = NoJobs /\ pipeline_post = NoJobs
  /\ default_runs_on = <<>> /\ default_container = <<>>
  /\ workflow_on = NoJobs
  /\ global_env = NoJobs

cfgVars == <<parameters, pipeline_post, default_runs_on, default_container, workflow_on,
             global_env>>

convVars == <<outcome, returned, stages_list, idx, jobs, job_keys, stages_info,
              last_job_ids, prev_job_id, action_paths, written, action_files, cfgVars>>

InitFB ==
  /\ text \in SeqsUpTo(AlphabetFB, MaxLen)
  /\ pat \in PatternsFB
  /\ pc = "fb_call"
  /\ fb_result = NotFound
  /\ ss_result = <<>>
  /\ result = <<>>
  /\ docker_arg = <<>>
  /\ Idle

ApplyFindBlock ==
  /\ pc = "fb_call"
  /\ fb_result' = find_block(text, pat)
  /\ pc' = "fb_done"
  /\ UNCHANGED <<docker_arg, text, pat, ss_result, result, convVars>>

NextFB == ApplyFindBlock

SpecFB == InitFB /\ [][NextFB]_vars

InitSS ==
  /\ text \in SeqsUpTo(AlphabetSS, MaxLen)
  /\ pat = "stage"
  /\ pc = "ss_call"
  /\ fb_result = NotFound
  /\ ss_result = <<>>
  /\ result = <<>>
  /\ docker_arg = <<>>
  /\ Idle

ApplySplitStages ==
  /\ pc = "ss_call"
  /\ ss_result' = split_stages(text)
  /\ pc' = "ss_done"
  /\ UNCHANGED <<docker_arg, text, pat, fb_result, result, convVars>>

NextSS == ApplySplitStages

SpecSS == InitSS /\ [][NextSS]_vars

----------------------------------------------------------------------------
(* Inputs of the stage-level checks: stage bodies tools { } steps { } post { } *)

CredSshGit == <<"s", "s", "h", "-", "g", "i", "t">>

CredGitDot == <<"g", "i", "t", ".", "k">>

CredTok == <<"t", "o", "k">>

CredK1 == <<"k", "1">>

\* the text between [ and ] of sshagent(['ssh.k'])
ListSshDot == <<"'", "s", "s", "h", ".", "k", "'">>

\* the text between [ and ] of sshagent(['a', 'b'])
ListAB == <<"'", "a", "'", ",", " ", "'", "b", "'">>

ShMake == Item("sh", <<"make">>)

ShBuild == Item("sh", <<"docker", "build", "-t", "img", ".">>)

ShPush == Item("sh", <<"docker", "push", "img">>)

ShKubectl == Item("sh", <<"kubectl", "apply">>)

\* steps whose conversion falls into the different categories of action steps
StepItemsGA ==
  {ShMake, ShBuild, ShPush, ShKubectl,
   Item("git", CredSshGit), Item("git", CredGitDot),
   Item("sonar", <<"mvn", "sonar:sonar">>), Item("sshagent", ListSshDot)}

\* commands in their forms (single-line sh, triple-quoted sh, echo, sh inside
\* withSonarQubeEnv), credentials in their three forms
StepItemsEX ==
  {ShMake, Item2("sh3", <<>>, <<<<"a">>, <<>>, <<"b">>>>), Item("echo", <<"hi">>),
   ShBuild, ShPush, Item("sh", <<"git", "fetch">>), Item("sonar", <<"sonar-scanner">>),
   Item("cred", CredTok), Item("credcall", CredK1), Item("sshagent", ListAB)}

ToolsChoices ==
  {<<>>,
   <<Tok("tools"), WS, LB, Item("maven", <<"m", "3">>),
     Item("jdk", <<"j", "d", "k", "1", "7">>), RB>>,
   <<Tok("tools"), WS, LB, Item("nodejs", <<"n", "2", "0">>), RB>>}

PostChoices ==
  {<<>>,
   <<Tok("post"), WS, LB,
       Tok("cleanup"), WS, LB, Item("sh", <<"c">>), RB,
       Tok("always"), WS, LB, Item("sh", <<"a">>), Item("archive", <<"x">>), RB, RB>>,
   <<Tok("post"), WS, LB,
       Tok("failure"), WS, LB, Item("echo", <<"f">>), RB,
       Tok("success"), WS, LB, Item("sh", <<"s">>), RB, RB>>}

StageBody(tools, steps, post) ==
  tools \o <<Tok("steps"), WS, LB>> \o steps \o <<RB>> \o post

\* the stage bodies with at most n steps
StageBodies(n) ==
  {StageBody(t, q, p) : t \in ToolsChoices, q \in SeqsUpTo(StepItemsGA, n),
                        p \in PostChoices}
    \cup {StageBody(<<>>, q, <<>>) : q \in SeqsUpTo(StepItemsEX, n)}

NameV == <<"V">>

NameC == <<"C">>

ParamString(name, default) == Item2("string", name, default)

ParamBoolean(name, default) == Item2("booleanParam", name, default)

ParamChoice(name, choices) == Item2("choice", name, choices)

\* declarations of two names in the three kinds
ParamDecls ==
  {ParamString(NameV, <<"1.0">>), ParamString(NameC, <<"2">>),
   ParamBoolean(NameV, <<"true">>),
   ParamChoice(NameV, <<<<"x">>, <<"y">>>>), ParamChoice(NameC, <<<<"x">>>>)}

\* pipeline bodies parameters { <declarations> }
ParamBodies ==
  {<<Tok("parameters"), WS, LB>> \o q \o <<RB>> : q \in SeqsUpTo(ParamDecls, MaxParams)}

\* container records as extract_docker_steps builds them
DockerRecords ==
  {BuildRecord(ShBuild.n), PushRecord(ShPush.n),
   [type |-> "build", tag |-> <<"b">>, context |-> <<".">>],
   [type |-> "push", tag |-> <<"b">>, context |-> <<>>]}

InitST ==
  /\ \/ text \in StageBodies(MaxSteps) /\ pc = "st_call" /\ docker_arg = <<>>
     \/ text \in ParamBodies /\ pc = "pp_call" /\ docker_arg = <<>>
     \/ text = <<>> /\ pc = "dk_call" /\ docker_arg \in SeqsUpTo(DockerRecords, MaxRecords)
  /\ pat = "steps"
  /\ fb_result = NotFound
  /\ ss_result = <<>>
  /\ result = <<>>
  /\ Idle

ApplyGenerateAction ==
  /\ pc = "st_call"
  /\ \E ssh_order \in Orders(SshCredentials(text)) :
       result' = generate_enhanced_composite_action(NameA, text, extract_stage_post(text),
                                                    ssh_order)
  /\ pc' = "ga_done"
  /\ UNCHANGED <<docker_arg, text, pat, fb_result, ss_result, convVars>>

ApplyExtractSteps ==
  /\ pc = "st_call"
  /\ result' = extract_steps_commands(text)
  /\ pc' = "cmds_done"
  /\ UNCHANGED <<docker_arg, text, pat, fb_result, ss_result, convVars>>

ApplyExtractDocker ==
  /\ pc = "st_call"
  /\ result' = extract_docker_steps(text)
  /\ pc' = "docker_done"
  /\ UNCHANGED <<docker_arg, text, pat, fb_result, ss_result, convVars>>

ApplyExtractCredentials ==
  /\ pc = "st_call"
  /\ result' = extract_credentials_usage(text)
  /\ pc' = "creds_done"
  /\ UNCHANGED <<docker_arg, text, pat, fb_result, ss_result, convVars>>

ApplyExtractParameters ==
  /\ pc = "pp_call"
  /\ result' = extract_parameters(text)
  /\ pc' = "pp_done"
  /\ UNCHANGED <<docker_arg, text, pat, fb_result, ss_result, convVars>>

ApplyConvertDocker ==
  /\ pc = "dk_call"
  /\ result' = convert_docker_steps(docker_arg)
  /\ pc' = "dk_done"
  /\ UNCHANGED <<docker_arg, text, pat, fb_result, ss_result, convVars>>

NextST ==
  \/ ApplyConvertDocker
  \/ ApplyExtractParameters
  \/ ApplyGenerateAction
  \/ ApplyExtractSteps
  \/ ApplyExtractDocker
  \/ ApplyExtractCredentials

SpecST == InitST /\ [][NextST]_vars

----------------------------------------------------------------------------
(* Inputs of the conversion: rendered pipelines, well-formed and damaged *)

NameA2 == <<"A", "!">>

NameP == <<"p">>

\* (name, has an approval step): a pair of names with the same job id whose
\* stages differ in approval, and a third name with and without approval
Branches ==
  {[name |-> NameA, input |-> FALSE], [name |-> NameA2, input |-> TRUE],
   [name |-> NameB, input |-> FALSE], [name |-> NameB, input |-> TRUE]}

BranchSeqs(n) == UNION {[1..k -> Branches] : k \in 1..n}

\* a stage of the input: sequential (par empty) or one parallel block
StageDescs(n) ==
  {[name |-> b.name, input |-> b.input, par |-> <<>>] : b \in Branches}
    \cup [name : {NameP}, input : {FALSE}, par : BranchSeqs(n)]

DescSize(d) == IF d.par = <<>> THEN 1 ELSE Len(d.par)

\* pipelines whose stages and branches number at most n
RECURSIVE Pipes(_)
Pipes(n) ==
  IF n = 0 THEN {<<>>}
  ELSE {<<>>} \cup UNION {{<<d>> \o r : r \in Pipes(n - DescSize(d))} : d \in StageDescs(n)}

\* { input(message: "...") }  or  { x }
RenderBody(input) == <<LB, (IF input THEN Tok("input") ELSE X), RB>>

RECURSIVE RenderBranches(_)
RenderBranches(bs) ==
  IF bs = <<>> THEN <<>>
  ELSE <<StageHdr(Head(bs).name)>> \o RenderBody(Head(bs).input) \o <<RB>>
       \o RenderBranches(Tail(bs))

RenderStage(d) ==
  IF d.par = <<>>
  THEN <<StageHdr(d.name)>> \o RenderBody(d.input) \o <<RB>>
  ELSE <<StageHdr(d.name), Tok("parallel"), WS, LB>> \o RenderBranches(d.par) \o <<RB, RB>>

RECURSIVE RenderStages(_)
RenderStages(ds) ==
  IF ds = <<>> THEN <<>> ELSE RenderStage(Head(ds)) \o RenderStages(Tail(ds))

\* pipeline { /* c */ agent any  stages { ... } }
RenderPipeline(ds) ==
  <<Tok("pipeline"), WS, LB, Tok("comment"), X, Tok("stages"), WS, LB>>
  \o RenderStages(ds) \o <<RB, RB>>

Modes == {"ok", "no_keyword", "no_open", "unclosed", "no_stages", "stages_no_open"}

Damage(s, mode) ==
  CASE mode = "ok"             -> s
    [] mode = "no_keyword"     -> [s EXCEPT ![1] = X]
    [] mode = "no_open"        -> [s EXCEPT ![2] = X]
    [] mode = "unclosed"       -> SubSeq(s, 1, Len(s) - 1)
    [] mode = "no_stages"      -> [s EXCEPT ![6] = X]
    [] mode = "stages_no_open" -> [s EXCEPT ![7] = X]

\* every well-formed pipeline of the bound, and every damage of the small ones
Inputs(n, m) ==
  {RenderPipeline(ds) : ds \in Pipes(n)}
    \cup {Damage(RenderPipeline(ds), mode) : ds \in Pipes(m), mode \in Modes}

Init ==
  /\ text \in Inputs(MaxJobs, MaxDamaged)
  /\ pat = "pipeline"
  /\ pc = "start"
  /\ fb_result = NotFound
  /\ ss_result = <<>>
  /\ result = <<>>
  /\ docker_arg = <<>>
  /\ Idle

----------------------------------------------------------------------------
(* convert_jenkins_to_gha, one action per step of the function *)

textVars == <<text, pat, fb_result, ss_result, result, docker_arg>>

\* converter.py:32-34
ParseFailPipeline ==
  /\ pc = "start"
  /\ ParseResult(text).outcome = "error_no_pipeline"
  /\ outcome' = "error_no_pipeline"
  /\ pc' = "done"
  /\ UNCHANGED <<textVars, cfgVars, returned, stages_list, idx, jobs, job_keys, stages_info,
                 last_job_ids, prev_job_id, action_paths, written,
                 action_files>>

\* converter.py:46-48
ParseFailStages ==
  /\ pc = "start"
  /\ ParseResult(text).outcome = "error_no_stages"
  /\ outcome' = "error_no_stages"
  /\ pc' = "done"
  /\ UNCHANGED <<textVars, cfgVars, returned, stages_list, idx, jobs, job_keys, stages_info,
                 last_job_ids, prev_job_id, action_paths, written,
                 action_files>>

\* converter.py:29-118
ParseOk ==
  /\ pc = "start"
  /\ ParseResult(text).outcome = "ok"
  /\ stages_list' = ParseResult(text).stages
  /\ jobs' = NoJobs /\ job_keys' = <<>>
  /\ stages_info' = <<>> /\ last_job_ids' = <<>> /\ prev_job_id' = <<>>
  /\ idx' = 1
  /\ LET pipeline_body == PipelineBody(text)
         global_agent  == extract_global_agent(pipeline_body)
     IN /\ parameters' = extract_parameters(pipeline_body)
        /\ pipeline_post' = extract_pipeline_post(pipeline_body)
        /\ default_runs_on' = DefaultRunsOn(global_agent)
        /\ default_container' = DefaultContainer(global_agent)
        /\ workflow_on' = WorkflowOn(WorkflowInputs(extract_parameters(pipeline_body)))
        /\ global_env' = (IF HasBlock(pipeline_body, "environment")
                          THEN extract_env_kv(BlockOf(pipeline_body, "environment"))
                          ELSE EmptyDict)
  /\ pc' = "loop"
  /\ UNCHANGED <<textVars, outcome, returned, action_paths, written,
                 action_files>>

\* converter.py:173-223: one iteration on a stage with parallel branches
ProcessParallel ==
  /\ pc = "loop" /\ idx <= Len(stages_list)
  /\ LET subs == extract_parallel(stages_list[idx].content) IN
       /\ subs # <<>>
       /\ LET st == ParallelLoop(subs, 1, Upstream(prev_job_id, last_job_ids),
                      [jobs |-> jobs, keys |-> job_keys, info |-> stages_info,
                       pids |-> <<>>])
          IN /\ jobs' = st.jobs
             /\ job_keys' = st.keys
             /\ stages_info' = st.info
             /\ last_job_ids' = AfterParallel(st.pids).last_job_ids
             /\ prev_job_id' = AfterParallel(st.pids).prev_job_id
  /\ idx' = idx + 1
  /\ UNCHANGED <<textVars, cfgVars, pc, outcome, returned, stages_list, action_paths, written,
                 action_files>>

\* converter.py:173-179, 225-262: one iteration on a sequential stage
ProcessSequential ==
  /\ pc = "loop" /\ idx <= Len(stages_list)
  /\ extract_parallel(stages_list[idx].content) = <<>>
  /\ LET stage  == stages_list[idx]
         job_id == gha_job_id(stage.name)
         info   == Append(stages_info, [name |-> stage.name, body |-> stage.content])
     IN /\ stages_info' = info
        /\ jobs' = PutJob(jobs, job_id, JobDef(SeqNeeds(last_job_ids, prev_job_id), Len(info),
                                              extract_stage_agent(stage.content),
                                              compute_job_env(
                                                extract_stage_environment(stage.content))))
        /\ job_keys' = PutKey(job_keys, job_id)
        /\ last_job_ids' = AfterSequential(last_job_ids, job_id).last_job_ids
        /\ prev_job_id' = AfterSequential(last_job_ids, job_id).prev_job_id
  /\ idx' = idx + 1
  /\ UNCHANGED <<textVars, cfgVars, pc, outcome, returned, stages_list, action_paths, written,
                 action_files>>

\* converter.py:264-265
GenerateActions ==
  /\ pc = "loop" /\ idx > Len(stages_list)
  /\ action_paths' = save_enhanced_composite_actions(stages_info)
  /\ written' = WrittenActions(stages_info)
  /\ action_files' \in ActionFiles(stages_info)
  /\ pc' = "update"
  /\ UNCHANGED <<textVars, cfgVars, outcome, returned, stages_list, idx, jobs, job_keys,
                 stages_info, last_job_ids, prev_job_id>>

KeyIndex(keys, id) == CHOOSE k \in 1..Len(keys) : keys[k] = id

\* converter.py:268-282: the i-th key of the mapping takes the i-th metadata record
UpdatedJobs(js, keys, paths) ==
  [id \in DOMAIN js |->
     LET i == KeyIndex(keys, id) IN
     IF i <= Len(paths)
     THEN [js[id] EXCEPT
             !.environment = IF paths[i].approval_environment # <<>>
                             THEN paths[i].approval_environment ELSE @,
             !.steps = create_enhanced_job_steps(paths[i])]
     ELSE js[id]]

UpdateJobs ==
  /\ pc = "update"
  /\ jobs' = UpdatedJobs(jobs, job_keys, action_paths)
  /\ pc' = "post"
  /\ UNCHANGED <<textVars, cfgVars, outcome, returned, stages_list, idx, job_keys, stages_info,
                 last_job_ids, prev_job_id, action_paths, written,
                 action_files>>

PipelinePostId == <<"pipeline-post">>

Always == <<"always()">>

\* mutant: the mail notification of a condition is emitted before its commands
PipelinePostStepsMailFirst(post, kind) ==
  IF kind \notin DOMAIN post THEN <<>>
  ELSE LET pdata == post[kind] IN
       (IF pdata.archive # <<>>
        THEN <<Step(<<"Upload artifacts (", kind, ")">>, <<"actions/upload-artifact@v4">>,
                    <<>>, Cond(kind),
                    [name |-> <<"pipeline-", kind, "-artifacts">>, path |-> pdata.archive])>>
        ELSE <<>>)
       \o (IF pdata.mail_to # <<>>
           THEN <<Step(<<"Send notification on ", kind>>, <<"dawidd6/action-send-mail@v3">>,
                       <<>>, Cond(kind), [to |-> pdata.mail_to])>>
           ELSE <<>>)
       \o (IF pdata.commands # <<>>
           THEN <<Step(<<"Pipeline post ", kind>>, <<>>, pdata.commands, Cond(kind),
                       EmptyDict)>>
           ELSE <<>>)

\* converter.py:289-319 for one kind; run holds the commands joined by newlines
PipelinePostSteps(post, kind) ==
  IF kind \notin DOMAIN post THEN <<>>
  ELSE LET pdata == post[kind] IN
       (IF pdata.archive # <<>>
        THEN <<Step(<<"Upload artifacts (", kind, ")">>, <<"actions/upload-artifact@v4">>,
                    <<>>, Cond(kind),
                    [name |-> <<"pipeline-", kind, "-artifacts">>, path |-> pdata.archive])>>
        ELSE <<>>)
       \o (IF pdata.commands # <<>>
           THEN <<Step(<<"Pipeline post ", kind>>, <<>>, pdata.commands, Cond(kind),
                       EmptyDict)>>
           ELSE <<>>)
       \o (IF pdata.mail_to # <<>>
           THEN <<Step(<<"Send notification on ", kind>>, <<"dawidd6/action-send-mail@v3">>,
                       <<>>, Cond(kind), [to |-> pdata.mail_to])>>
           ELSE <<>>)

\* converter.py:286-319
PostJobSteps(post) ==
  <<CheckoutStep>>
  \o PipelinePostSteps(post, "always") \o PipelinePostSteps(post, "success")
  \o PipelinePostSteps(post, "failure") \o PipelinePostSteps(post, "cleanup")

\* converter.py:322-331
PostJobDef(keys, steps) ==
  [needs |-> SelectSeq(keys, LAMBDA k : k # PipelinePostId),
   steps |-> steps, environment |-> <<>>, src |-> 0,
   runs_on |-> default_runs_on, container |-> default_container, cond |-> Always,
   env |-> EmptyDict]

\* converter.py:284-332
PipelinePost ==
  /\ pc = "post"
  /\ LET post_job_steps == PostJobSteps(pipeline_post) IN
       IF pipeline_post # EmptyDict /\ Len(post_job_steps) > 1
       THEN /\ jobs' = PutJob(jobs, PipelinePostId, PostJobDef(job_keys, post_job_steps))
            /\ job_keys' = PutKey(job_keys, PipelinePostId)
       ELSE UNCHANGED <<jobs, job_keys>>
  /\ pc' = "return"
  /\ UNCHANGED <<textVars, cfgVars, outcome, returned, stages_list, idx, stages_info,
                 last_job_ids, prev_job_id, action_paths, written,
                 action_files>>

\* converter.py:334
Return ==
  /\ pc = "return"
  /\ outcome' = "ok"
  /\ returned' = TRUE
  /\ pc' = "done"
  /\ UNCHANGED <<textVars, cfgVars, stages_list, idx, jobs, job_keys, stages_info,
                 last_job_ids, prev_job_id, action_paths, written,
                 action_files>>

Next ==
  \/ ParseFailPipeline
  \/ ParseFailStages
  \/ ParseOk
  \/ ProcessParallel
  \/ ProcessSequential
  \/ GenerateActions
  \/ UpdateJobs
  \/ PipelinePost
  \/ Return

Spec == Init /\ [][Next]_vars

----------------------------------------------------------------------------
(* Inputs of the conversion with agents, parameters, credentials and post blocks *)

AgentAny == <<Tok("agent"), WS, Tok("any"), WS>>

AgentDocker(image) ==
  <<Tok("agent"), WS, LB, Tok("docker"), WS, LB, Item("image", image), RB, RB>>

AgentLabel(label) == <<Tok("agent"), WS, LB, Item("label", label), RB>>

ImageMaven == <<"maven:3">>

ImageNode == <<"node:20">>

LabelLinux == <<"linux">>

\* stage('name') { <agent> steps { ... } <post> }
RichStage(name, agent, steps, post) ==
  <<StageHdr(name)>> \o agent \o <<Tok("steps"), WS, LB>> \o steps \o <<RB>> \o post \o <<RB>>

StagePostAlways ==
  <<Tok("post"), WS, LB, Tok("always"), WS, LB, Item("echo", <<"done">>), RB, RB>>

\* git url: 'https://github.com/o/r.git'
GitHttps == Item("giturl", <<"https:", "//", "github.com/", "o/r", ".git">>)

\* git url: 'o/r'
GitShort == Item("giturl", <<"o/r">>)

RichStages ==
  {RichStage(NameA, <<>>, <<GitHttps, ShMake>>, <<>>),
   RichStage(NameA2, AgentAny, <<Item("cred", CredGitDot), ShMake>>, <<>>),
   RichStage(NameB, AgentDocker(ImageNode), <<GitShort, ShMake>>, StagePostAlways),
   RichStage(NameB, AgentLabel(LabelLinux), <<GitHttps, Tok("input")>>, <<>>),
   <<StageHdr(NameP), Tok("parallel"), WS, LB>>
     \o RichStage(NameA, AgentAny, <<ShMake>>, <<>>)
     \o RichStage(NameB, <<>>, <<Item("cred", CredGitDot)>>, <<>>)
     \o <<RB, RB>>}

PipelineAgents == {<<>>, AgentAny, AgentDocker(ImageMaven), AgentLabel(LabelLinux)}

PipelineParams ==
  {<<>>,
   <<Tok("parameters"), WS, LB, ParamString(NameV, <<"1.0">>),
     ParamChoice(NameC, <<<<"x">>, <<"y">>>>), RB>>,
   <<Tok("parameters"), WS, LB, ParamChoice(NameV, <<<<"x">>, <<"y">>>>),
     ParamBoolean(NameC, <<"true">>), ParamString(NameV, <<"1.0">>), RB>>}

PipelinePosts ==
  {<<>>,
   <<Tok("post"), WS, LB,
       Tok("cleanup"), WS, LB, Item("mail", <<"a@b">>), Item("sh", <<"rm">>), RB,
       Tok("always"), WS, LB, Item("sh", <<"a">>), Item("archive", <<"x">>),
                              Item("mail", <<"a@b">>), RB, RB>>,
   <<Tok("post"), WS, LB, Tok("failure"), WS, LB, Item("echo", <<"failed">>), RB,
                          Tok("success"), WS, LB, Item("archive", <<"x">>), RB, RB>>,
   <<Tok("post"), WS, LB, Tok("always"), WS, LB, X, RB, RB>>}

RECURSIVE Flatten(_)
Flatten(qs) == IF qs = <<>> THEN <<>> ELSE Head(qs) \o Flatten(Tail(qs))

\* pipeline { <agent> <parameters> stages { ... } <post> }
RenderRich(agent, params, stages, post) ==
  <<Tok("pipeline"), WS, LB>> \o agent \o params
  \o <<Tok("stages"), WS, LB>> \o Flatten(stages) \o <<RB>> \o post \o <<RB>>

RichInputs ==
  {RenderRich(a, q, st, po) : a \in PipelineAgents, q \in PipelineParams,
                              st \in SeqsUpTo(RichStages, MaxRich), po \in PipelinePosts}
    \cup {<<X>>, <<Tok("pipeline"), WS, LB, X, RB>>}

InitRich ==
  /\ text \in RichInputs
  /\ pat = "pipeline"
  /\ pc = "start"
  /\ fb_result = NotFound
  /\ ss_result = <<>>
  /\ result = <<>>
  /\ docker_arg = <<>>
  /\ Idle

SpecRich == InitRich /\ [][Next]_vars

----------------------------------------------------------------------------
(* Inputs of the conversion whose stages and branches all have different job ids *)

SeqDesc(name) == [name |-> name, input |-> FALSE, par |-> <<>>]

ParDesc(names) ==
  [name |-> NameP, input |-> FALSE,
   par |-> [k \in 1..Len(names) |-> [name |-> names[k], input |-> FALSE]]]

\* two sequential stages, two parallel groups and a group of one branch
UnitDescs ==
  {SeqDesc(NameA), SeqDesc(NameB), ParDesc(<<<<"d">>, <<"g">>>>),
   ParDesc(<<<<"h">>, <<"i">>>>), ParDesc(<<<<"j">>>>)}

\* the sequences of at most MaxUnits different stages, in every order
DistinctPipes ==
  {ds \in SeqsUpTo(UnitDescs, MaxUnits) :
     \A i, j \in 1..Len(ds) : ds[i] = ds[j] => i = j}

InitDistinct ==
  /\ text \in {RenderPipeline(ds) : ds \in DistinctPipes}
               \cup {Damage(RenderPipeline(<<SeqDesc(NameA)>>), mode) :
                       mode \in {"no_keyword", "no_stages"}}
  /\ pat = "pipeline"
  /\ pc = "start"
  /\ fb_result = NotFound
  /\ ss_result = <<>>
  /\ result = <<>>
  /\ docker_arg = <<>>
  /\ Idle

SpecDistinct == InitDistinct /\ [][Next]_vars

----------------------------------------------------------------------------
(* Inputs of the conversion with environment blocks *)

EnvLine(key, val) == Item2("env", <<key>>, <<val>>)

EnvBlock(lines) == <<Tok("environment"), WS, LB>> \o lines \o <<RB>>

\* no block, a block that changes K, a block that repeats G, changes K and adds N
StageEnvs ==
  {<<>>, EnvBlock(<<EnvLine("K", "v")>>),
   EnvBlock(<<EnvLine("K", "v"), EnvLine("G", "g"), EnvLine("N", "n")>>)}

\* stage('name') { <environment> steps { sh 'make' } }
EnvStage(name, env) ==
  [name |-> name,
   text |-> <<StageHdr(name)>> \o env \o <<Tok("steps"), WS, LB, ShMake, RB, RB>>]

\* stages a and b with each environment, and a parallel block whose first
\* branch has an environment
EnvStages ==
  {EnvStage(name, env) : name \in {NameA, NameB}, env \in StageEnvs}
    \cup {[name |-> NameP,
           text |-> <<StageHdr(NameP), Tok("parallel"), WS, LB>>
                    \o EnvStage(<<"d">>, EnvBlock(<<EnvLine("K", "v")>>)).text
                    \o EnvStage(<<"g">>, <<>>).text \o <<RB, RB>>]}

\* at most MaxEnvStages stages with different names
EnvStageSeqs ==
  {q \in SeqsUpTo(EnvStages, MaxEnvStages) :
     \A i, j \in 1..Len(q) : q[i].name = q[j].name => i = j}

PipelineEnv == EnvBlock(<<EnvLine("G", "g"), EnvLine("K", "w")>>)

\* pipeline { <environment> stages { ... } <environment> }
RenderEnv(before, stages, after) ==
  <<Tok("pipeline"), WS, LB>> \o before
  \o <<Tok("stages"), WS, LB>> \o Flatten([k \in 1..Len(stages) |-> stages[k].text])
  \o <<RB>> \o after \o <<RB>>

EnvInputs ==
  {RenderEnv(e[1], q, e[2]) :
     e \in {<<<<>>, <<>>>>, <<PipelineEnv, <<>>>>, <<<<>>, PipelineEnv>>}, q \in EnvStageSeqs}
    \cup {<<X>>, <<Tok("pipeline"), WS, LB, X, RB>>}

InitEnv ==
  /\ text \in EnvInputs
  /\ pat = "pipeline"
  /\ pc = "start"
  /\ fb_result = NotFound
  /\ ss_result = <<>>
  /\ result = <<>>
  /\ docker_arg = <<>>
  /\ Idle

SpecEnv == InitEnv /\ [][Next]_vars

----------------------------------------------------------------------------
(* Dependency edges and job mapping of the conversion *)

Converted == pc = "done" /\ outcome = "ok"

IsPar(stage) == extract_parallel(stage.content) # <<>>

BranchIds(stage) ==
  LET subs == extract_parallel(stage.content) IN
  [k \in 1..Len(subs) |-> gha_job_id(subs[k].name)]

\* C1: every id in a job's `needs` names a different job inserted into the
\* mapping strictly earlier (no self, forward or dangling reference).
C1_NeedsEarlier ==
  Converted =>
    \A k \in 1..Len(job_keys) :
      \A d \in Range(jobs[job_keys[k]].needs) :
        \E m \in 1..(k - 1) : job_keys[m] = d

\* C2: the job definition emitted for a sequential stage has no dependencies when
\* the stage is the first one, exactly the job of the preceding stage when that
\* one was sequential, and exactly the ids of the preceding parallel group otherwise.
C2_SequentialNeeds ==
  [][(/\ pc = "loop" /\ idx <= Len(stages_list) /\ idx' = idx + 1
      /\ ~IsPar(stages_list[idx]))
     => LET n == jobs'[gha_job_id(stages_list[idx].name)].needs IN
        IF idx = 1 THEN n = <<>>
        ELSE IF ~IsPar(stages_list[idx - 1])
             THEN n = <<gha_job_id(stages_list[idx - 1].name)>>
             ELSE /\ Range(n) = Range(BranchIds(stages_list[idx - 1]))
                  /\ Len(n) = Len(BranchIds(stages_list[idx - 1]))]_vars

\* a sequential stage was processed right after a parallel group of two jobs
C2_Witness ==
  /\ pc = "loop" /\ idx = 3
  /\ IsPar(stages_list[1]) /\ ~IsPar(stages_list[2])
  /\ Cardinality(Range(BranchIds(stages_list[1]))) = 2
  /\ Range(jobs[gha_job_id(stages_list[2].name)].needs) = Range(BranchIds(stages_list[1]))

\* the job id the branches of the parallel stage at position i wait for
UpstreamOf(i) ==
  IF i = 1 THEN <<>>
  ELSE IF IsPar(stages_list[i - 1])
       THEN LET b == BranchIds(stages_list[i - 1]) IN b[Len(b)]
       ELSE gha_job_id(stages_list[i - 1].name)

\* C3: once a parallel block is processed, all its jobs have the same
\* dependencies, only the job preceding the block (none for a first stage), and
\* none of them lists another job of the group.
C3_ParallelSiblings ==
  (pc = "loop" /\ idx > 1 /\ IsPar(stages_list[idx - 1])) =>
    LET G == Range(BranchIds(stages_list[idx - 1]))
        U == UpstreamOf(idx - 1)
    IN \A g \in G :
         /\ jobs[g].needs = (IF U = <<>> THEN <<>> ELSE <<U>>)
         /\ \A d \in Range(jobs[g].needs) : d \notin (G \ {g})

RECURSIVE NumUnits(_)
NumUnits(stages) ==
  IF stages = <<>> THEN 0
  ELSE (IF IsPar(Head(stages)) THEN Len(extract_parallel(Head(stages).content)) ELSE 1)
       + NumUnits(Tail(stages))

\* C5: the mapping holds one job per sequential stage and per parallel branch,
\* as many as there are action metadata records.
C5_OneJobPerStage ==
  Converted =>
    /\ Cardinality(DOMAIN jobs) = NumUnits(stages_list)
    /\ Len(job_keys) = Len(action_paths)

\* C6: the action reference and the approval environment of a job come from the
\* metadata of the stage the job definition was built from, and the job has an
\* environment exactly when that stage holds an input(message: ...) step.
C6_OwnActionInfo ==
  Converted =>
    \A id \in DOMAIN jobs :
      LET j == jobs[id] IN
      /\ j.steps[Len(j.steps)].uses = action_paths[j.src].path
      /\ j.environment = action_paths[j.src].approval_environment
      /\ (j.environment # <<>>) <=> (extract_input_steps(stages_info[j.src].body) # <<>>)

----------------------------------------------------------------------------
(* Fatal conditions of the conversion *)

BadInput(s) ==
  LET t == strip_comments(s) IN NoBlock(t, "pipeline") \/ NoStagesInPipeline(t)

NothingProduced ==
  /\ ~returned
  /\ jobs = NoJobs /\ job_keys = <<>> /\ stages_info = <<>>
  /\ action_paths = <<>> /\ written = <<>>

\* C4: without a pipeline { ... } block, or without a stages { ... } block in it,
\* the conversion ends in an error before any job is added and before any action
\* is generated or written, and returns nothing.
C4_FatalNoArtifacts ==
  /\ [](outcome \in {"error_no_pipeline", "error_no_stages"} =>
          pc = "done" /\ NothingProduced)
  /\ [][(pc = "start" /\ BadInput(text)) =>
          /\ pc' = "done"
          /\ outcome' = (IF NoBlock(strip_comments(text), "pipeline")
                         THEN "error_no_pipeline" ELSE "error_no_stages")]_vars

\* pipeline { is never closed and the conversion has ended
C4_Witness ==
  /\ pc = "done" /\ outcome = "error_no_pipeline"
  /\ KwUnclosed(strip_comments(text), "pipeline")
  /\ NothingProduced

C4_WitnessNoStages ==
  /\ pc = "done" /\ outcome = "error_no_stages"
  /\ \E i \in 1..Len(text) : text[i].t = "stage"
  /\ NothingProduced

----------------------------------------------------------------------------
(* find_block *)

\* C7: a found span (start, end) satisfies 0 <= start <= end < len(text),
\* text[start-1] is '{', text[end] is '}', and text[start:end] holds as many '{'
\* as '}' with no prefix holding more '}' than '{'.
C7_BalancedSpan ==
  (pc = "fb_done" /\ fb_result # NotFound) =>
    LET st == fb_result[1]
        en == fb_result[2]
    IN /\ 0 <= st /\ st <= en /\ en < Len(text)
       /\ st >= 1 /\ StartsWithBrace(At(text, st - 1))
       /\ IsClose(At(text, en))
       /\ OpenCount(text, st, en - 1) = CloseCount(text, st, en - 1)
       /\ \A k \in st..(en - 1) : CloseCount(text, st, k) <= OpenCount(text, st, k)

C7_Witness ==
  /\ pc = "fb_done" /\ fb_result # NotFound
  /\ OpenCount(text, fb_result[1], fb_result[2] - 1) >= 1

\* C8: find_block returns (-1, -1) when the first keyword match is not followed,
\* after optional whitespace, by '{' (a later brace is not paired with it), and
\* when the opening brace is never closed at depth zero.
C8_NotFound ==
  (pc = "fb_done" /\ (KwNoBrace(text, pat) \/ KwUnclosed(text, pat))) =>
    fb_result = NotFound

\* the keyword is followed by another character and a complete { } comes later
C8_Witness ==
  /\ pc = "fb_done" /\ fb_result = NotFound
  /\ KwNoBrace(text, pat)
  /\ \E b \in 0..(Len(text) - 1) : \E j \in 0..(Len(text) - 1) :
       /\ FirstAt(text, pat, 0) /\ b > 1
       /\ StartsWithBrace(At(text, b)) /\ ClosesAt(text, b, j)

C8_WitnessUnclosed ==
  /\ pc = "fb_done" /\ fb_result = NotFound
  /\ KwUnclosed(text, pat)
  /\ CloseCount(text, 0, Len(text) - 1) >= 1

----------------------------------------------------------------------------
(* split_stages *)

FirstStageFrom(s, i, h) ==
  /\ h \in i..(Len(s) - 1)
  /\ At(s, h).t = "stage"
  /\ \A k \in i..(h - 1) : At(s, k).t # "stage"

\* C9: the entries are the stage blocks in the order of their headers, each once;
\* the search resumes just past the closing brace of the captured block, so a
\* header inside a captured body is not an entry of its own.
C9_OrderAndResume ==
  (pc = "ss_done") =>
    LET r == ss_result IN
    /\ \A k \in 1..Len(r) :
         /\ FirstStageFrom(text, IF k = 1 THEN 0 ELSE r[k - 1].close + 1, r[k].hdr)
         /\ ClosesAt(text, r[k].hdr, r[k].close)
         /\ r[k].name = At(text, r[k].hdr).n
         /\ r[k].content = Slice(text, r[k].hdr + 1, r[k].close)
    /\ \A k \in 1..Len(r) : \A m \in 1..Len(r) :
         /\ (k < m => r[k].hdr < r[m].hdr)
         /\ ~(r[k].hdr < r[m].hdr /\ r[m].hdr < r[k].close)

\* two entries, the first with a stage header nested in its body
C9_Witness ==
  /\ pc = "ss_done" /\ Len(ss_result) >= 2
  /\ \E h \in 0..(Len(text) - 1) :
       /\ At(text, h).t = "stage"
       /\ ss_result[1].hdr < h /\ h < ss_result[1].close

\* the stage headers split_stages finds, in order, up to and including the first
\* one whose brace never balances
RECURSIVE FoundHeaders(_, _)
FoundHeaders(s, i) ==
  IF ~\E h \in i..(Len(s) - 1) : At(s, h).t = "stage" THEN <<>>
  ELSE LET h == CHOOSE h \in i..(Len(s) - 1) : FirstStageFrom(s, i, h) IN
       IF NeverClosed(s, h) THEN <<h>>
       ELSE LET c == CHOOSE j \in (h + 1)..(Len(s) - 1) : ClosesAt(s, h, j) IN
            <<h>> \o FoundHeaders(s, c + 1)

\* C10: when the k-th header found has a brace that never balances, the result is
\* exactly the k-1 well-formed stages before it, in order.
C10_PartialResult ==
  (pc = "ss_done") =>
    LET hs == FoundHeaders(text, 0)
        k  == Len(hs)
    IN (k >= 1 /\ NeverClosed(text, hs[k])) =>
         /\ Len(ss_result) = k - 1
         /\ \A m \in 1..(k - 1) :
              /\ ss_result[m].hdr = hs[m]
              /\ ss_result[m].name = At(text, hs[m]).n
              /\ ClosesAt(text, hs[m], ss_result[m].close)
              /\ ss_result[m].content = Slice(text, hs[m] + 1, ss_result[m].close)

\* two well-formed stages followed by a stage that is never closed
C10_Witness ==
  /\ pc = "ss_done" /\ Len(ss_result) = 2
  /\ LET hs == FoundHeaders(text, 0) IN
       Len(hs) = 3 /\ NeverClosed(text, hs[3])

----------------------------------------------------------------------------
(* Composite action steps *)

\* the category of an emitted step, read off the step itself
Category(step) ==
  LET h == step.name[1] IN
  CASE h \in {"Set up JDK", "Cache Maven packages", "Set up Node.js"} -> 1
    [] h = "Checkout code" -> 2
    [] h \in {"SonarQube Scan", "Run SonarQube analysis"} -> 3
    [] h \in {"Build Docker image", "Login to DockerHub", "Push Docker image"} -> 4
    [] h = "Run command " -> 5
    [] h = "Run kubectl command" -> 6
    [] h = "Execute SSH commands" -> 7
    [] h \in {"Upload artifacts (", "Post "} ->
         (CASE step.cond = Cond("always") -> 8
            [] step.cond = Cond("success") -> 9
            [] step.cond = Cond("failure") -> 10
            [] OTHER -> 11)
    [] OTHER -> 0

Categories(steps) == {Category(steps[i]) : i \in 1..Len(steps)}

\* C11: the steps of a generated composite action are in the category order tool
\* setup, git checkout, SonarQube, container build/login/push, plain run-commands,
\* kubectl, SSH, post always, post success, post failure: no step of a later
\* category precedes one of an earlier category, and no step belongs to the
\* cleanup condition.
C11_StepOrder ==
  (pc = "ga_done") =>
    LET st == result.steps IN
    /\ \A i \in 1..Len(st) : \A j \in 1..Len(st) :
         i < j => Category(st[i]) <= Category(st[j])
    /\ \A i \in 1..Len(st) :
         /\ Category(st[i]) \in 1..10
         /\ st[i].cond # Cond("cleanup")

\* an action with steps of seven categories, generated from a stage whose post
\* block has a cleanup condition
C11_Witness ==
  /\ pc = "ga_done"
  /\ Cardinality(Categories(result.steps)) >= 7
  /\ {6, 7, 8} \subseteq Categories(result.steps)
  /\ HasBlock(BlockOf(text, "post"), "cleanup")

----------------------------------------------------------------------------
(* Agents of the jobs *)

\* offset i of the text lies outside every block of it
TopLevel(s, i) == OpenCount(s, 0, i - 1) = CloseCount(s, 0, i - 1)

\* the agent a body declares for itself: the first `agent` that is a direct child
\* of the body, followed by `any` or by a block
DeclaredAgent(s) ==
  LET tops == {i \in 0..(Len(s) - 1) : At(s, i).t = "agent" /\ TopLevel(s, i)} IN
  IF tops = {} THEN EmptyDict
  ELSE LET i == CHOOSE x \in tops : \A y \in tops : x <= y
           q == SkipSpace(s, i + 1)
       IN IF q >= Len(s) THEN EmptyDict
          ELSE IF At(s, q).t = "any" THEN [type |-> "any"]
          ELSE IF StartsWithBrace(At(s, q)) /\ \E j \in (q + 1)..(Len(s) - 1) : ClosesAt(s, q, j)
               THEN AgentFromBody(
                      Slice(s, q + 1, CHOOSE j \in (q + 1)..(Len(s) - 1) : ClosesAt(s, q, j)))
          ELSE EmptyDict

RunnerOf(agent) ==
  IF agent # EmptyDict /\ agent.type = "label"
  THEN map_label_to_runs_on(agent.label) ELSE UbuntuLatest

ContainerFor(agent) ==
  IF agent # EmptyDict /\ agent.type = "docker" THEN ContainerOf(agent) ELSE <<>>

StageJobs == DOMAIN jobs \ {PipelinePostId}

\* C12: a job whose stage declares an agent has the runner and the container of
\* that declaration (`agent any`: generic runner, no container, whatever the
\* pipeline declares); a job whose stage declares none has the runner and the
\* container of the pipeline-level declaration.
C12_AgentPrecedence ==
  Converted =>
    \A id \in StageJobs :
      LET j  == jobs[id]
          sa == DeclaredAgent(stages_info[j.src].body)
          pa == DeclaredAgent(PipelineBody(text))
          a  == IF sa # EmptyDict THEN sa ELSE pa
      IN j.runs_on = RunnerOf(a) /\ j.container = ContainerFor(a)

----------------------------------------------------------------------------
(* Steps of the stage jobs *)

IsActionReference(step) ==
  /\ step.run = <<>>
  /\ \E k \in 1..Len(action_paths) :
       step.uses = action_paths[k].path /\ step.name = <<"Run ">> \o action_paths[k].name

\* C13: after the conversion the steps of every stage job are one checkout step
\* followed by one composite-action reference, the checkout step being left out
\* exactly when a credential id of the job's own stage contains "git" in any
\* letter case; no job is left with the placeholder checkout alone.
C13_JobSteps ==
  Converted =>
    \A id \in StageJobs :
      LET j   == jobs[id]
          git == \E c \in extract_credentials_usage(stages_info[j.src].body) : HasGit(c)
      IN /\ Len(j.steps) = (IF git THEN 1 ELSE 2)
         /\ (~git => j.steps[1] = CheckoutStep)
         /\ IsActionReference(j.steps[Len(j.steps)])

----------------------------------------------------------------------------
(* The pipeline-post job *)

KindRank(cond) == CHOOSE k \in 1..Len(PostKinds) : cond = Cond(PostKinds[k])

\* artifact upload, commands, mail notification
PartRank(step) ==
  CASE step.uses = <<"actions/upload-artifact@v4">> -> 1
    [] step.run # <<>> -> 2
    [] step.uses = <<"dawidd6/action-send-mail@v3">> -> 3
    [] OTHER -> 0

\* the (condition, part) pairs the extracted post-conditions hold data for
PostParts(post) ==
  {<<k, 1>> : k \in {x \in 1..Len(PostKinds) :
                       PostKinds[x] \in DOMAIN post /\ post[PostKinds[x]].archive # <<>>}}
  \cup {<<k, 2>> : k \in {x \in 1..Len(PostKinds) :
                       PostKinds[x] \in DOMAIN post /\ post[PostKinds[x]].commands # <<>>}}
  \cup {<<k, 3>> : k \in {x \in 1..Len(PostKinds) :
                       PostKinds[x] \in DOMAIN post /\ post[PostKinds[x]].mail_to # <<>>}}

\* the step carries the data of its condition
PartData(post, step) ==
  LET pdata == post[PostKinds[KindRank(step.cond)]] IN
  CASE PartRank(step) = 1 -> step.with.path = pdata.archive
    [] PartRank(step) = 2 -> step.run = pdata.commands
    [] PartRank(step) = 3 -> step.with.to = pdata.mail_to

\* C14: the pipeline-post job exists exactly when the extracted pipeline
\* post-conditions yield a step beyond the checkout; it then needs exactly all the
\* other jobs, runs under always(), and after the checkout its steps go through the
\* conditions in the order always, success, failure, cleanup and, within one
\* condition, artifact upload, then commands, then mail notification.
C14_PipelinePostJob ==
  Converted =>
    /\ (PipelinePostId \in DOMAIN jobs) <=> (PostParts(pipeline_post) # {})
    /\ (PipelinePostId \in DOMAIN jobs) =>
         LET j  == jobs[PipelinePostId]
             st == Tail(j.steps)
         IN /\ Range(j.needs) = DOMAIN jobs \ {PipelinePostId}
            /\ Len(j.needs) = Cardinality(DOMAIN jobs) - 1
            /\ j.cond = Always
            /\ j.steps[1] = CheckoutStep
            /\ {<<KindRank(st[i].cond), PartRank(st[i])>> : i \in 1..Len(st)}
                  = PostParts(pipeline_post)
            /\ \A i \in 1..Len(st) : PartData(pipeline_post, st[i])
            /\ \A i \in 1..Len(st) : \A k \in 1..Len(st) :
                 i < k =>
                   \/ KindRank(st[i].cond) < KindRank(st[k].cond)
                   \/ /\ KindRank(st[i].cond) = KindRank(st[k].cond)
                      /\ PartRank(st[i]) < PartRank(st[k])

\* a pipeline-post job after two other jobs, with upload, commands and mail under
\* always and steps under cleanup
C14_Witness ==
  /\ Converted
  /\ PipelinePostId \in DOMAIN jobs
  /\ Len(jobs[PipelinePostId].needs) >= 2
  /\ {<<1, 1>>, <<1, 2>>, <<1, 3>>, <<4, 2>>} \subseteq PostParts(pipeline_post)

\* a post block without any recognised step: no pipeline-post job
C14_WitnessNone ==
  /\ Converted
  /\ HasBlock(PipelineBody(text), "post")
  /\ PipelinePostId \notin DOMAIN jobs

\* the text `kw { ... }` of the first kw that is a direct child of the body and
\* opens a block, empty when there is none
DirectBlock(s, kw) ==
  LET tops == {i \in 0..(Len(s) - 1) :
                 /\ At(s, i).t = kw /\ TopLevel(s, i)
                 /\ SkipSpace(s, i + 1) < Len(s)
                 /\ StartsWithBrace(At(s, SkipSpace(s, i + 1)))
                 /\ \E j \in 0..(Len(s) - 1) : ClosesAt(s, SkipSpace(s, i + 1), j)}
  IN IF tops = {} THEN <<>>
     ELSE LET i == CHOOSE x \in tops : \A y \in tops : x <= y
              j == CHOOSE x \in 0..(Len(s) - 1) : ClosesAt(s, SkipSpace(s, i + 1), x)
          IN Slice(s, i, j + 1)

\* C15: the pipeline-post job comes from the post block that is a direct child of
\* the pipeline block and from no other: the extracted post-conditions are those
\* of that block, a post block nested in a stage adds no step and does not create
\* the job, also when the stage precedes the pipeline-level post block.
C15_DirectPostOnly ==
  Converted =>
    LET own == _extract_post_body(DirectBlock(PipelineBody(text), "post")) IN
    /\ pipeline_post = own
    /\ (PipelinePostId \in DOMAIN jobs) <=> (PostParts(own) # {})
    /\ (PipelinePostId \in DOMAIN jobs) => jobs[PipelinePostId].steps = PostJobSteps(own)

----------------------------------------------------------------------------
(* Triggers of the workflow *)

Parsed == pc \in {"loop", "update", "post", "return"} \/ Converted

\* C16: the triggers always hold push and pull_request; workflow_dispatch is there
\* exactly when a parameter was extracted, and then has one input per extracted
\* parameter name, with the parameter's default and type, and with an options
\* field exactly for the parameters of kind choice.
C16_Triggers ==
  Parsed =>
    /\ {"push", "pull_request"} \subseteq DOMAIN workflow_on
    /\ DOMAIN workflow_on \subseteq {"push", "pull_request", "workflow_dispatch"}
    /\ ("workflow_dispatch" \in DOMAIN workflow_on) <=> (DOMAIN parameters # {})
    /\ ("workflow_dispatch" \in DOMAIN workflow_on) =>
         LET inputs == workflow_on["workflow_dispatch"].inputs IN
         /\ DOMAIN inputs = DOMAIN parameters
         /\ \A n \in DOMAIN inputs :
              /\ inputs[n].default = parameters[n].default
              /\ inputs[n].type = parameters[n].type
              /\ ("options" \in DOMAIN inputs[n]) <=> (parameters[n].type = "choice")
              /\ ("options" \in DOMAIN inputs[n]) => inputs[n].options = parameters[n].options

\* a string parameter V with default 1.0 and a choice parameter: two inputs, the
\* first without options, the second with them
C16_Witness ==
  /\ Converted
  /\ "workflow_dispatch" \in DOMAIN workflow_on
  /\ LET inputs == workflow_on["workflow_dispatch"].inputs IN
       /\ DOMAIN inputs = {NameV, NameC}
       /\ inputs[NameV].type = "string" /\ inputs[NameV].default = <<"1.0">>
       /\ "options" \notin DOMAIN inputs[NameV]
       /\ inputs[NameC].type = "choice" /\ "options" \in DOMAIN inputs[NameC]

\* a pipeline without parameters: push and pull_request only
C16_WitnessNone ==
  /\ Converted
  /\ DOMAIN parameters = {}
  /\ DOMAIN workflow_on = {"push", "pull_request"}

----------------------------------------------------------------------------
(* extract_parameters *)

IsParamDecl(tok) == tok.t \in {"string", "booleanParam", "choice"}

DeclaredNames(s) == {s[i].n : i \in {k \in 1..Len(s) : IsParamDecl(s[k])}}

\* the declaration of the name that appears last in the text
LastDeclaration(s, name) ==
  LET at == {k \in 1..Len(s) : IsParamDecl(s[k]) /\ s[k].n = name} IN
  s[CHOOSE k \in at : \A m \in at : m <= k]

\* C17: extract_parameters returns one descriptor per declared name, and for a
\* name declared more than once the descriptor of the declaration that appears
\* last in the text, whatever the kinds of the declarations.
C17_LastDeclarationWins ==
  (pc = "pp_done") =>
    /\ DOMAIN result = DeclaredNames(text)
    /\ \A name \in DeclaredNames(text) :
         result[name] = ParamInfo(LastDeclaration(text, name))

----------------------------------------------------------------------------
(* extractors that collect several matches *)

\* the commands one step contributes, whatever its form
CommandsOfStep(tok) ==
  CASE tok.t \in {"sh", "sonar"} -> <<tok.n>>
    [] tok.t = "sh3"  -> multiline_to_commands(tok.v)
    [] tok.t = "echo" -> <<<<"echo">> \o tok.n>>
    [] OTHER -> <<>>

RECURSIVE TextualCommands(_)
TextualCommands(s) ==
  IF s = <<>> THEN <<>> ELSE CommandsOfStep(Head(s)) \o TextualCommands(Tail(s))

IsDockerCmd(c, verb) == Len(c) >= 3 /\ c[1] = "docker" /\ c[2] = verb

\* the record of one docker command line
DockerRecordOf(c) ==
  IF IsDockerCmd(c, "build") THEN <<BuildRecord(c)>>
  ELSE IF IsDockerCmd(c, "push") THEN <<PushRecord(c)>>
  ELSE <<>>

RECURSIVE TextualDockerRecords(_)
TextualDockerRecords(cmds) ==
  IF cmds = <<>> THEN <<>>
  ELSE DockerRecordOf(Head(cmds)) \o TextualDockerRecords(Tail(cmds))

\* C18: extract_steps_commands returns the commands of the steps block in the
\* order they appear in the text, whatever their form, and extract_docker_steps
\* returns the build and push records in the order the commands appear.
C18_TextualOrder ==
  /\ (pc = "cmds_done") => result = TextualCommands(BlockOf(text, "steps"))
  /\ (pc = "docker_done") =>
        result = TextualDockerRecords(Captures(text, {"sh"}))

----------------------------------------------------------------------------
(* extract_credentials_usage *)

\* the entries of a list 'x', 'y': the texts between an opening quote and the
\* next quote
RECURSIVE QuotedEntries(_)
QuotedEntries(q) ==
  IF q = <<>> THEN {}
  ELSE IF ~IsQuote(Head(q)) THEN QuotedEntries(Tail(q))
  ELSE LET r == TakeNonQuote(Tail(q)) IN
       IF Len(r) + 1 >= Len(q) THEN {}
       ELSE {r} \cup QuotedEntries(SubSeq(q, Len(r) + 3, Len(q)))

\* the identifiers a stage body references in one of the three forms
ReferencedCredentials(s) ==
  {s[k].n : k \in {i \in 1..Len(s) : s[i].t \in {"cred", "git", "credcall"}}}
    \cup UNION {QuotedEntries(s[k].n) : k \in {i \in 1..Len(s) : s[i].t = "sshagent"}}

\* C19: the set extract_credentials_usage returns for a stage body is exactly
\* the set of identifiers referenced by a credentialsId value, a credentials()
\* call or a quoted entry of an sshagent list; it holds no separator of a list.
C19_ExactCredentials ==
  (pc = "creds_done") => result = ReferencedCredentials(text)

----------------------------------------------------------------------------
(* Secret references *)

\* uppercase, every run of non-alphanumeric characters replaced by one underscore
NormalizedSecretName(cred_id) == Replace(SubRuns(UpperStr(cred_id)), "-", "_")

\* the values of the `with` entry key of the steps called name
WithValues(steps, name, key) ==
  {steps[k].with[key] : k \in {i \in 1..Len(steps) :
                                  steps[i].name = name /\ key \in DOMAIN steps[i].with}}

GitCredentials(s) ==
  {s[k].n : k \in {i \in 1..Len(s) : s[i].t = "git" /\ s[i].n # <<>>}}

\* C20: the token of a checkout step and the key of an SSH step refer to the
\* secret named by the credential id in uppercase with every run of
\* non-alphanumeric characters replaced by a single underscore.
C20_SecretName ==
  (pc = "ga_done") =>
    /\ WithValues(result.steps, <<"Checkout code">>, "token")
         = {SecretRef(NormalizedSecretName(c)) : c \in GitCredentials(text)}
    /\ WithValues(result.steps, <<"Execute SSH commands">>, "key")
         = {SecretRef(NormalizedSecretName(c)) : c \in SshCredentials(text)}

----------------------------------------------------------------------------
(* Commands represented by a specialized step *)

IsRunCommand(step) == step.name # <<>> /\ step.name[1] = "Run command "

\* the commands of the sh steps inside a withSonarQubeEnv block
SonarScoped(s) == {s[k].n : k \in {i \in 1..Len(s) : s[i].t = "sonar"}}

\* the commands of the steps outside such a block
PlainCommands(s) ==
  UNION {Range(CommandsOfStep(s[k])) : k \in {i \in 1..Len(s) : s[i].t \in {"sh", "sh3", "echo"}}}

HasSpecializedPrefix(cmd) ==
  \/ Len(cmd) >= 2 /\ cmd[1] = "git"
  \/ Len(cmd) >= 2 /\ cmd[1] = "docker" /\ cmd[2] \in {"build", "push"}

\* C21: no plain run-step of a composite action carries a command that a
\* specialized step represents: a command inside a withSonarQubeEnv block that
\* produced an analysis step, or a command that starts with git, docker build
\* or docker push.
C21_NoDuplicateRunStep ==
  (pc = "ga_done") =>
    \A i \in 1..Len(result.steps) :
      IsRunCommand(result.steps[i]) =>
        /\ ~HasSpecializedPrefix(result.steps[i].run)
        /\ result.steps[i].run \in SonarScoped(text) =>
              result.steps[i].run \in PlainCommands(BlockOf(text, "steps"))

----------------------------------------------------------------------------
(* Checkout steps of the git calls *)

IsGitCall(tok) == tok.t \in {"git", "giturl", "gitcut"}

\* the repository a url names: <owner>/<repo> of https://github.com/<owner>/<repo>.git,
\* an owner/repo shorthand itself
NamedRepository(url) ==
  IF url[1] = "https:"
  THEN SelectSeq(url, LAMBDA chunk : chunk \notin {"https:", "//", "github.com/", ".git"})
  ELSE url

\* the repositories named by the git calls of the source, in source order
SourceRepositories(s) ==
  LET g == SelectSeq(s, LAMBDA tok : tok.t \in {"git", "giturl"}) IN
  [k \in 1..Len(g) |-> NamedRepository(IF g[k].t = "git" THEN GitUrl ELSE g[k].n)]

\* the repository inputs of the checkout steps of one action, empty when absent
CheckoutRepositories(steps) ==
  LET c == SelectSeq(steps, LAMBDA st : st.name = <<"Checkout code">>) IN
  [k \in 1..Len(c) |->
     IF "repository" \in DOMAIN c[k].with THEN c[k].with["repository"] ELSE <<>>]

\* C22: after a conversion from end to end the composite action of every stage
\* has one checkout step per git call of the stage, and the repository inputs
\* of these steps are, stage by stage in source order, the repositories the
\* urls name: <owner>/<repo> for https://github.com/<owner>/<repo>.git and the
\* shorthand itself for an owner/repo url.
C22_CheckoutRepository ==
  returned =>
    /\ \A k \in 1..Len(action_files) :
         Len(CheckoutRepositories(action_files[k].steps))
           = Len(SelectSeq(stages_info[k].body, IsGitCall))
    /\ Flatten([k \in 1..Len(action_files) |-> CheckoutRepositories(action_files[k].steps)])
         = SourceRepositories(text)

----------------------------------------------------------------------------
(* convert_docker_steps *)

IsLogin(step) == step.uses = <<"docker/login-action@v2">>

Positions(steps, name) == {i \in 1..Len(steps) : steps[i].name = name}

RecordsOfType(records, type) == {i \in 1..Len(records) : records[i].type = type}

\* C23: convert_docker_steps emits exactly one login step when the records
\* hold at least one push and none otherwise, the login step precedes every
\* push step, and every build record yields exactly one build step and every
\* push record exactly one push step, in the order of the records.
C23_OneLogin ==
  (pc = "dk_done") =>
    LET logins  == {i \in 1..Len(result) : IsLogin(result[i])}
        pushes  == Positions(result, <<"Push Docker image">>)
        builds  == Positions(result, <<"Build Docker image">>)
        others  == SelectSeq(result, LAMBDA st : ~IsLogin(st))
    IN /\ Cardinality(logins) = (IF RecordsOfType(docker_arg, "push") # {} THEN 1 ELSE 0)
       /\ \A i \in logins : \A j \in pushes : i < j
       /\ Cardinality(builds) = Cardinality(RecordsOfType(docker_arg, "build"))
       /\ Cardinality(pushes) = Cardinality(RecordsOfType(docker_arg, "push"))
       /\ Len(others) = Len(docker_arg)
       /\ \A k \in 1..Len(others) :
            others[k] = (IF docker_arg[k].type = "build"
                         THEN BuildStep(docker_arg[k]) ELSE PushStep(docker_arg[k]))

\* two push records with a build record between them have been converted
C23_Witness ==
  /\ pc = "dk_done"
  /\ Cardinality(RecordsOfType(docker_arg, "push")) >= 2
  /\ \E i, j, k \in 1..Len(docker_arg) :
       /\ i < j /\ j < k
       /\ docker_arg[i].type = "push" /\ docker_arg[j].type = "build"
       /\ docker_arg[k].type = "push"
  /\ Cardinality({i \in 1..Len(result) : IsLogin(result[i])}) = 1

\* records without a push have been converted
C23_WitnessNoPush ==
  /\ pc = "dk_done"
  /\ docker_arg # <<>>
  /\ RecordsOfType(docker_arg, "push") = {}
  /\ \A i \in 1..Len(result) : ~IsLogin(result[i])

----------------------------------------------------------------------------
(* Execution order of the jobs *)

\* the jobs of the stages in source order: id and position of the top-level stage
RECURSIVE StageUnits(_, _)
StageUnits(stages, k) ==
  IF k > Len(stages) THEN <<>>
  ELSE (IF IsPar(stages[k])
        THEN LET b == BranchIds(stages[k]) IN [m \in 1..Len(b) |-> [id |-> b[m], top |-> k]]
        ELSE <<[id |-> gha_job_id(stages[k].name), top |-> k]>>)
       \o StageUnits(stages, k + 1)

NeedsOf(ids) == UNION {Range(jobs[d].needs) : d \in ids \cap DOMAIN jobs}

\* the jobs reached from ids through at most n dependency lists
RECURSIVE Ancestors(_, _)
Ancestors(ids, n) ==
  IF n = 0 THEN ids ELSE Ancestors(ids \cup NeedsOf(ids), n - 1)

\* the jobs that must have finished before job id starts
MustFinishBefore(id) == Ancestors(NeedsOf({id}), Cardinality(DOMAIN jobs))

\* C24: for two stages of which the first appears before the second in the
\* source, and which are not branches of the same parallel block, the job of
\* the second depends through the dependency lists on the job of the first.
C24_SourceOrder ==
  Converted =>
    LET u == StageUnits(stages_list, 1) IN
    \A i, j \in 1..Len(u) :
      (i < j /\ u[i].top # u[j].top) => u[i].id \in MustFinishBefore(u[j].id)

----------------------------------------------------------------------------
(* Workflow and job environments *)

\* the key-values of the environment block that is a direct child of body
DirectEnv(body) == extract_env_kv(DirectBlock(body, "environment"))

\* the variables of a stage that are absent from the pipeline-level block or
\* differ from it
OwnEnv(stage_env, pipeline_env) ==
  [k \in {x \in DOMAIN stage_env :
            x \notin DOMAIN pipeline_env \/ pipeline_env[x] # stage_env[x]} |-> stage_env[k]]

\* the stages and branches that have a job: job id and stage body
RECURSIVE StageBodiesOf(_, _)
StageBodiesOf(stages, k) ==
  IF k > Len(stages) THEN <<>>
  ELSE (IF IsPar(stages[k])
        THEN LET subs == extract_parallel(stages[k].content) IN
             [m \in 1..Len(subs) |->
                [id |-> gha_job_id(subs[m].name), body |-> subs[m].content]]
        ELSE <<[id |-> gha_job_id(stages[k].name), body |-> stages[k].content]>>)
       \o StageBodiesOf(stages, k + 1)

\* C25: the workflow-level environment is exactly the environment block that is
\* a direct child of the pipeline block (none when there is no such block, even
\* if stages declare environment blocks), and the env of a stage's job holds
\* exactly the variables of the stage's own environment block that are absent
\* from the pipeline-level block or differ from it.
C25_EnvFrame ==
  Converted =>
    LET pipeline_env == DirectEnv(PipelineBody(text))
        u == StageBodiesOf(stages_list, 1)
    IN /\ global_env = pipeline_env
       /\ \A k \in 1..Len(u) :
            jobs[u[k].id].env = OwnEnv(DirectEnv(u[k].body), pipeline_env)

-----------------------------------------------------------------------------
(* The predecessor state of the conversion loop *)

\* the stages of a parsed pipeline are being, or have been, iterated over
InLoop == pc # "start" /\ outcome \in {"none", "ok"} /\ idx >= 1

\* the group's job ids, in source order, as a sequence
GroupIds(stage) == SubSeq(BranchIds(stage), 1, Len(extract_parallel(stage.content)))

\* C26: after each stage processed by the loop the predecessor state has one of
\* three shapes: both prev_job_id and last_job_ids empty before any stage; after
\* a sequential stage prev_job_id is its job id and last_job_ids is empty; after
\* a parallel group last_job_ids is the group's job ids in source order and
\* prev_job_id is empty. The two are never both non-empty.
C26_PredecessorShapes ==
  /\ ~(prev_job_id # <<>> /\ last_job_ids # <<>>)
  /\ InLoop =>
       IF idx = 1 THEN prev_job_id = <<>> /\ last_job_ids = <<>>
       ELSE IF IsPar(stages_list[idx - 1])
            THEN /\ last_job_ids = GroupIds(stages_list[idx - 1])
                 /\ last_job_ids # <<>>
                 /\ prev_job_id = <<>>
            ELSE /\ prev_job_id = gha_job_id(stages_list[idx - 1].name)
                 /\ prev_job_id # <<>>
                 /\ last_job_ids = <<>>

\* a sequential stage was processed right after a parallel group of two jobs and
\* left its own job id as the only predecessor
C26_Witness ==
  /\ pc = "loop" /\ idx = 3
  /\ IsPar(stages_list[1]) /\ ~IsPar(stages_list[2])
  /\ Len(extract_parallel(stages_list[1].content)) = 2
  /\ prev_job_id = gha_job_id(stages_list[2].name)
  /\ last_job_ids = <<>>

\* a parallel group of two different jobs was processed after a sequential stage
C26_WitnessGroup ==
  /\ pc = "loop" /\ idx = 3
  /\ ~IsPar(stages_list[1]) /\ IsPar(stages_list[2])
  /\ Len(last_job_ids) = 2 /\ last_job_ids[1] # last_job_ids[2]
  /\ prev_job_id = <<>>

====
